---- MODULE Spec2Model ----
(***************************************************************************)
(* GraphiVault python backend: the vault lifecycle (CryptoController,      *)
(* SessionManager, GraphiVaultCore), the images table of StorageInterface  *)
(* and the IPCGateway object, as one state machine.                        *)
(*                                                                         *)
(* Conventions.                                                            *)
(*  - Random values (salt, file key, tag key) are drawn together by        *)
(*    initialize_master_key; the n-th draw is the generation number n, and *)
(*    0 stands for None.  PBKDF2 is symbolic: the derived key is the pair  *)
(*    of password and salt.                                                *)
(*  - Time is in minutes; time.time() and datetime.now() read `clock`.     *)
(*  - The database is an SQLite file holding the images table of           *)
(*    _initialize_database (id PRIMARY KEY, file_hash UNIQUE); each        *)
(*    statement of StorageInterface is one atomic step on that table.      *)
(*  - A row is abstracted to its id, its file_hash and whether its         *)
(*    thumbnail_path is set.                                               *)
(***************************************************************************)
EXTENDS Integers, FiniteSets, Sequences, TLC

\* ---- bounds of the model ----
MaxGen == 2
MaxImages == 3
MaxTime == 45
TickStep == 15
MaxFailed == 4
MaxLen == 2
MaxLog == 2
MaxTags == 2
MaxAppends == 7

\* ---- program constants (SessionManager.__init__) ----
timeout_minutes == 30
max_failed_attempts == 3
lockout_duration_minutes == 15

\* ---- program constants (AuditLogger.__init__) ----
max_log_files == 5

\* ---- program constants (CryptoController.__init__) ----
nonce_size == 12
tag_size == 16

Passwords == {"p1", "p2"}
Hashes == {"hA", "hB"}
Threads == {"t1", "t2"}
Ids == 1..MaxImages
None == -1
Bytes == {0, 1}
Plaintexts == UNION {[1..n -> Bytes] : n \in 0..MaxLen}
Nonces == {1, 2}

VARIABLES
  crypto,       \* CryptoController: _master_key, _session_key, _tag_keychain, _key_derivation_salt
  session,      \* SessionManager state
  core,         \* GraphiVaultCore: _is_initialized, storage
  gateway,      \* IPCGateway: core, storage (references held or None)
  vault,        \* vault directory: vault.config/vault.key/dirs, salt in vault.key, database file
  images,       \* rows of the images table
  blobs,        \* id -> generation of the file key of data/<id>.enc, 0 = no file
  thumbs,       \* ids with a file thumbnails/<id>_thumb.jpg
  clock,        \* wall clock, minutes
  gens,         \* number of random draws made by initialize_master_key
  next_id,      \* number of uuid4 values handed out
  pc,           \* per thread: position inside add_image
  local,        \* per thread: locals of add_image
  ret,          \* the last call that returned, and its result
  vault_pw,     \* history: password of the last initialize_master_key that wrote vault.key
  added,        \* history: images add_image returned and delete_image has not deleted
  locked_since, \* history: lock_vault returned True and no initialize/unlock succeeded since
  activity,     \* history: time of the last entry-point call on the Core
  consec_bad,   \* history: unlock_vault calls with a bad password in a row
  cryptio,      \* CryptoController data path: last input, encrypted bytes, last result
  proc,         \* the last gateway process: command, stdout, stderr, exit code
  audit,        \* AuditLogger: the current log file and the number of rotated files
  tagio,        \* TagManager: the last tag list given and its normalization
  searchio,     \* SearchEngine: the last query, the records searched, the ranked result
  vconfig,      \* VaultManager: the content of vault.config and the number of uuids drawn
  logdir,       \* AuditLogger: the current and the rotated log files, line by line
  logthreads,   \* AuditLogger objects on one file: each object's lock and each thread's position
  smthreads,    \* SessionManager under threads: each thread's position, the value it read, history
  vdir,         \* vault directory entries seen by VaultManager, and the last integrity report
  gw_bad,       \* history: bad-password unlock_vault calls in a row on the gateway, and the time of the last
  relock        \* history: lock_vault returned, and whether unlock_vault with the password of that time has succeeded since

\* state of the library-level operations, untouched by the vault operations
libVars == <<cryptio, proc, audit, tagio, searchio, vconfig, logdir, logthreads, smthreads, vdir, gw_bad, relock>>

\* state of the vault operations other than the CryptoController keys
vaultVars == <<session, core, gateway, vault, images, blobs, thumbs, clock,
               gens, next_id, pc, local, ret, vault_pw, added, locked_since,
               activity, consec_bad>>

\* what the CryptoController data path leaves alone
cryptoFrame == <<crypto, vaultVars, proc, audit, tagio, searchio, vconfig, logdir, logthreads, smthreads, vdir, gw_bad, relock>>

vars == <<crypto, session, core, gateway, vault, images, blobs, thumbs, clock,
          gens, next_id, pc, local, ret, vault_pw, added, locked_since,
          activity, consec_bad, libVars>>

\* ------------------------------------------------------------------------
\* CryptoController
\* ------------------------------------------------------------------------
NoMasterKey == [pw |-> "", salt |-> 0]

\* PBKDF2HMAC(SHA512, salt, iterations).derive(password)
KDF(pw, salt) == [pw |-> pw, salt |-> salt]

CryptoController__init__ ==
  [master_key |-> NoMasterKey, session_key |-> 0, tag_keychain |-> 0, salt |-> 0]

initialize_master_key(cr, pw, g) ==
  [master_key |-> KDF(pw, g), session_key |-> g, tag_keychain |-> g, salt |-> g]

\* vault.key after save_crypto_params
save_crypto_params(vt, cr) == [vt EXCEPT !.salt = cr.salt]

load_crypto_params(cr, vt) ==
  IF ~vt.exists THEN [ok |-> FALSE, crypto |-> cr]
  ELSE [ok |-> TRUE,
        crypto |-> IF vt.salt # 0 THEN [cr EXCEPT !.salt = vt.salt] ELSE cr]

verify_master_key(cr, pw) ==
  IF cr.salt = 0 THEN FALSE
  ELSE KDF(pw, cr.salt) = cr.master_key

clear_keys(cr) ==
  [master_key |-> NoMasterKey, session_key |-> 0, tag_keychain |-> 0, salt |-> 0]

is_initialized(cr) ==
  /\ cr.master_key # NoMasterKey
  /\ cr.session_key # 0
  /\ cr.tag_keychain # 0

\* ---- AES-256-GCM, symbolic ----
\* A byte of the nonce drawn by secrets.token_bytes, a byte of the GCM tag
\* (a function of the key, the whole nonce and the whole ciphertext), a byte
\* of the CTR ciphertext (a function of the key, the whole nonce, the
\* position and the plaintext byte), and the byte read where the key stream
\* does not match.
NonceByte(n) == <<"nonce", n>>
TagByte(k, nonce, ct) == <<"tag", k, nonce, ct>>
CtByte(k, nonce, i, v) == <<"ct", k, nonce, i, v>>
Garbage == 2

\* data[a:b] of Python
Slice(d, a, b) == SubSeq(d, a + 1, IF b < Len(d) THEN b ELSE Len(d))

\* Cipher(AES(key), GCM(nonce)).encryptor(): update(x), finalize(), tag
GcmEncrypt(k, n, x) ==
  LET nonce == [i \in 1..nonce_size |-> NonceByte(n)]
      ct == [i \in 1..Len(x) |-> CtByte(k, nonce, i, x[i])]
  IN [nonce |-> nonce, tag |-> [i \in 1..tag_size |-> TagByte(k, nonce, ct)],
      ct |-> ct]

\* decryptor.update(ct)
GcmUpdate(k, nonce, ct) ==
  [i \in 1..Len(ct) |->
     IF \E v \in Bytes : ct[i] = CtByte(k, nonce, i, v)
     THEN CHOOSE v \in Bytes : ct[i] = CtByte(k, nonce, i, v)
     ELSE Garbage]

\* GCM(nonce, tag) accepts the lengths, and decryptor.finalize() the tag
GcmFinalize(k, nonce, tag, ct) ==
  /\ Len(nonce) = nonce_size
  /\ Len(tag) = tag_size
  /\ tag = [i \in 1..tag_size |-> TagByte(k, nonce, ct)]

\* nonce + tag + ciphertext under key k; ok = FALSE is the RuntimeError
GcmSeal(k, n, x) ==
  IF k = 0 THEN [ok |-> FALSE, data |-> <<>>]
  ELSE LET e == GcmEncrypt(k, n, x) IN
       [ok |-> TRUE, data |-> e.nonce \o e.tag \o e.ct]

\* split at nonce_size and nonce_size + tag_size, update, finalize
GcmOpen(k, d, verify) ==
  LET nonce == Slice(d, 0, nonce_size)
      tag == Slice(d, nonce_size, nonce_size + tag_size)
      ct == Slice(d, nonce_size + tag_size, Len(d))
  IN IF k = 0 THEN [ok |-> FALSE, data |-> <<>>]
     ELSE IF verify /\ ~GcmFinalize(k, nonce, tag, ct)
     THEN [ok |-> FALSE, data |-> <<>>]
     ELSE [ok |-> TRUE, data |-> GcmUpdate(k, nonce, ct)]

\* an encrypt_data that returns tag + nonce + ciphertext
encrypt_data_tag_first(cr, x, n) ==
  IF cr.session_key = 0 THEN [ok |-> FALSE, data |-> <<>>]
  ELSE LET e == GcmEncrypt(cr.session_key, n, x) IN
       [ok |-> TRUE, data |-> e.tag \o e.nonce \o e.ct]

encrypt_data(cr, x, n) == GcmSeal(cr.session_key, n, x)

decrypt_data(cr, d) == GcmOpen(cr.session_key, d, TRUE)

encrypt_with_tag_keychain(cr, x, n) == GcmSeal(cr.tag_keychain, n, x)

decrypt_with_tag_keychain(cr, d) == GcmOpen(cr.tag_keychain, d, TRUE)

\* the file written: nonce, tag placeholder overwritten by the tag, ciphertext
encrypt_file(cr, x, n) == GcmSeal(cr.session_key, n, x)

\* a decrypt_file_to_memory that returns the bytes without finalize()
decrypt_file_to_memory_unverified(cr, d) == GcmOpen(cr.session_key, d, FALSE)

decrypt_file_to_memory(cr, d) == GcmOpen(cr.session_key, d, TRUE)

\* the output file is unlinked when anything raised
decrypt_file(cr, d) ==
  LET r == GcmOpen(cr.session_key, d, TRUE) IN
  [ok |-> r.ok, outfile |-> r.ok, data |-> r.data]

\* ------------------------------------------------------------------------
\* AuditLogger
\* ------------------------------------------------------------------------
safe_fields == {"timestamp", "error", "status", "count", "size", "type",
                "format", "duration", "result", "method", "version"}
hash_fields == {"filename", "path", "image_id", "tag"}

\* keys a caller passes: an allow-listed one, a hashed one, one that ends
\* with _size, and one that is neither
EventKeys == {"error", "filename", "file_size", "vault_path"}
CountOrSizeKeys == {"file_size"}

\* values: a plain text, a file name, and an error text that quotes the name
Values == {"ok", "cat.jpg", "File not found: cat.jpg"}
Mentions(v, raw) == v = raw \/ v = "File not found: " \o raw

\* event_data dictionaries of at most two keys
EventData ==
  UNION {[S -> Values] : S \in {T \in SUBSET EventKeys : Cardinality(T) <= 2}}

\* hashlib.sha256(str(value).encode()).hexdigest()[:16] and [:32]
Sha256_16(v) == <<"sha256[:16]", v>>
Sha256_32(v) == <<"sha256[:32]", v>>
HashKey(k) == k \o "_hash"

_sanitize_event_data(d) ==
  LET kept == {k \in DOMAIN d : k \in safe_fields \/ k \in CountOrSizeKeys}
      hashed == {k \in DOMAIN d : k \notin safe_fields /\ k \in hash_fields}
  IN [k \in kept \cup {HashKey(h) : h \in hashed} |->
        IF k \in kept THEN d[k]
        ELSE Sha256_16(d[CHOOSE h \in hashed : HashKey(h) = k])]

\* json.dumps(entry without integrity_hash, sort_keys=True); the timestamps
\* and the session hash are left out of the model
_calculate_entry_hash(e) == Sha256_32([event_type |-> e.event_type, data |-> e.data])

\* given is history: the event_data the caller passed
_create_log_entry(event_type, d) ==
  LET e == [event_type |-> event_type, data |-> _sanitize_event_data(d)] IN
  [event_type |-> event_type, data |-> e.data,
   integrity_hash |-> _calculate_entry_hash(e), given |-> d]

\* the header entry: timestamp, event_type, version, max_size_bytes
header_entry ==
  [event_type |-> "log_initialized", data |-> [k \in {} |-> "ok"],
   integrity_hash |-> <<>>, given |-> [k \in {} |-> "ok"]]

\* the file is at least max_log_size long, here MaxLog entries
_should_rotate_log(au) == au.exists /\ Len(au.file) >= MaxLog

_rotate_log_files(au) ==
  [exists |-> TRUE, file |-> <<header_entry>>,
   rotated |-> IF au.rotated < max_log_files THEN au.rotated + 1 ELSE au.rotated]

log_event(au, event_type, d) ==
  LET e == _create_log_entry(event_type, d)
      a == IF _should_rotate_log(au) THEN _rotate_log_files(au) ELSE au
  IN [a EXCEPT !.exists = TRUE, !.file = Append(a.file, e)]

\* ---- the log files, line by line ----
\* audit above keeps the content of the current file and only the number of
\* rotated files; logdir keeps every file.  A line is the header or an entry;
\* n is history, the number of the log_event call that wrote it;
\* timestamp_unix is 0 for the header, which has no such key; state is
\* "intact", "bad_json" (the line is not JSON) or "hash_mismatch"
header_line == [kind |-> "header", n |-> 0, timestamp_unix |-> 0, state |-> "intact"]
entry_line(n, now) == [kind |-> "entry", n |-> n, timestamp_unix |-> now, state |-> "intact"]

no_file == [exists |-> FALSE, lines |-> <<>>, mtime |-> 0]
logdir0 ==
  [current |-> no_file, rotated |-> [i \in 1..(max_log_files + 1) |-> no_file],
   appended |-> 0, last_op |-> "none"]

initialize_log_file(now) == [exists |-> TRUE, lines |-> <<header_line>>, mtime |-> now]

\* for i in range(max_log_files - 1, 0, -1): rename .i to .(i+1)
RECURSIVE shift_rotated(_, _)
shift_rotated(rot, i) ==
  IF i = 0 THEN rot
  ELSE shift_rotated(IF rot[i].exists
                     THEN [rot EXCEPT ![i + 1] = rot[i], ![i] = no_file]
                     ELSE rot,
                     i - 1)

\* the loop with range(max_log_files, 0, -1)
rotate_files_one_more(ld, now) ==
  LET rot == shift_rotated(ld.rotated, max_log_files) IN
  [ld EXCEPT !.rotated = IF ld.current.exists THEN [rot EXCEPT ![1] = ld.current] ELSE rot,
             !.current = initialize_log_file(now)]

rotate_files(ld, now) ==
  LET rot == shift_rotated(ld.rotated, max_log_files - 1) IN
  [ld EXCEPT !.rotated = IF ld.current.exists THEN [rot EXCEPT ![1] = ld.current] ELSE rot,
             !.current = initialize_log_file(now)]

\* log_event on the files: rotate when the current file is full, then append
append_entry(ld, now) ==
  LET a == IF ld.current.exists /\ Len(ld.current.lines) >= MaxLog
           THEN rotate_files(ld, now) ELSE ld
  IN [a EXCEPT !.current = [exists |-> TRUE,
                            lines |-> Append(a.current.lines,
                                             entry_line(ld.appended + 1, now)),
                            mtime |-> now],
               !.appended = ld.appended + 1,
               !.last_op = "log_event"]

\* a line is kept when it is not JSON or its timestamp_unix is at least cutoff
_filter_log_file(f, cutoff, now) ==
  [exists |-> TRUE,
   lines |-> SelectSeq(f.lines,
               LAMBDA l : l.state = "bad_json" \/ l.timestamp_unix >= cutoff),
   mtime |-> now]

\* older_than is in the unit of the clock
clear_logs(ld, older_than, now) ==
  LET cutoff_time == now - older_than IN
  [ld EXCEPT
     !.current = IF ld.current.exists
                 THEN _filter_log_file(ld.current, cutoff_time, now) ELSE ld.current,
     !.rotated = [i \in DOMAIN ld.rotated |->
                    IF i > max_log_files \/ ~ld.rotated[i].exists THEN ld.rotated[i]
                    ELSE IF ld.rotated[i].mtime < cutoff_time THEN no_file
                    ELSE _filter_log_file(ld.rotated[i], cutoff_time, now)],
     !.last_op = "clear_logs"]

\* ---- log_lock ----
\* every AuditLogger object has its own threading.Lock; every
\* GraphiVaultCore constructs its own AuditLogger on <vault>/audit.log
Loggers == {"a1", "a2"}
LockedOps == {"log_event", "clear_logs", "verify_log_integrity"}
logthreads0 ==
  [log_lock |-> [a \in Loggers |-> "free"],
   at |-> [t \in Threads |-> "idle"],
   obj |-> [t \in Threads |-> "a1"]]

\* with self.log_lock: entered
acquire_log_lock(lt, t, a, op) ==
  [log_lock |-> [lt.log_lock EXCEPT ![a] = t],
   at |-> [lt.at EXCEPT ![t] = op],
   obj |-> [lt.obj EXCEPT ![t] = a]]

\* with self.log_lock: left
release_log_lock(lt, t) ==
  [log_lock |-> [lt.log_lock EXCEPT ![lt.obj[t]] = "free"],
   at |-> [lt.at EXCEPT ![t] = "idle"],
   obj |-> [lt.obj EXCEPT ![t] = "a1"]]

\* ------------------------------------------------------------------------
\* TagManager
\* ------------------------------------------------------------------------
\* characters: a letter in both cases, white space, a separator and a digit
Chars == {"a", "A", " ", "-", "1"}
Ord(c) == CASE c = " " -> 32 [] c = "-" -> 45 [] c = "1" -> 49
            [] c = "A" -> 65 [] c = "a" -> 97
whitespace == {" "}
allowed_chars == {"a", "1", "-"}     \* 'a..z0..9-_:/.' restricted to Chars
separators == {"-"}                  \* '-_:/' restricted to Chars

Strings == UNION {[1..n -> Chars] : n \in 0..2}

\* a tag is a str, or another JSON value given by its str(): the numbers 1, -1
Tags == [is_str : {TRUE}, s : Strings]
          \cup [is_str : {FALSE}, s : {<<"1">>, <<"-", "1">>}]
TagLists == UNION {[1..n -> Tags] : n \in 0..MaxTags}

RECURSIVE lstrip(_, _)
lstrip(s, cs) == IF s # <<>> /\ Head(s) \in cs THEN lstrip(Tail(s), cs) ELSE s
RECURSIVE rstrip(_, _)
rstrip(s, cs) ==
  IF s # <<>> /\ s[Len(s)] \in cs THEN rstrip(SubSeq(s, 1, Len(s) - 1), cs) ELSE s
strip(s, cs) == rstrip(lstrip(s, cs), cs)
lower(s) == [i \in DOMAIN s |-> IF s[i] = "A" THEN "a" ELSE s[i]]
keep(s, cs) == SelectSeq(s, LAMBDA c : c \in cs)

_normalize_tag(tag) ==
  IF ~tag.is_str THEN lower(strip(tag.s, whitespace))
  ELSE strip(keep(lower(strip(tag.s, whitespace)), allowed_chars), separators)

\* str < str: by code point, a proper prefix first
RECURSIVE StrLess(_, _)
StrLess(a, b) ==
  IF b = <<>> THEN FALSE
  ELSE IF a = <<>> THEN TRUE
  ELSE IF Head(a) # Head(b) THEN Ord(Head(a)) < Ord(Head(b))
  ELSE StrLess(Tail(a), Tail(b))

RECURSIVE insert(_, _)
insert(x, l) ==
  IF l = <<>> THEN <<x>>
  ELSE IF StrLess(Head(l), x) THEN <<Head(l)>> \o insert(x, Tail(l))
  ELSE <<x>> \o l
RECURSIVE sorted(_)
sorted(l) == IF l = <<>> THEN <<>> ELSE insert(Head(l), sorted(Tail(l)))

Elems(l) == {l[i] : i \in DOMAIN l}

RECURSIVE normalize_loop(_, _)
normalize_loop(tags, normalized) ==
  IF tags = <<>> THEN normalized
  ELSE LET norm_tag == _normalize_tag(Head(tags)) IN
       normalize_loop(Tail(tags),
                      IF norm_tag # <<>> /\ norm_tag \notin Elems(normalized)
                      THEN Append(normalized, norm_tag) ELSE normalized)

_normalize_tags(tags) == sorted(normalize_loop(tags, <<>>))

\* a list of str, as decrypt_tags returns it
StrTags(l) == [i \in DOMAIN l |-> [is_str |-> TRUE, s |-> l[i]]]

\* ------------------------------------------------------------------------
\* SearchEngine
\* ------------------------------------------------------------------------
\* a str is a sequence of characters
stopwords ==
  {<<"a">>,
   <<"a", "n">>,
   <<"a", "n", "d">>,
   <<"a", "r", "e">>,
   <<"a", "s">>,
   <<"a", "t">>,
   <<"b", "e">>,
   <<"b", "y">>,
   <<"f", "o", "r">>,
   <<"f", "r", "o", "m">>,
   <<"h", "a", "s">>,
   <<"h", "e">>,
   <<"i", "n">>,
   <<"i", "s">>,
   <<"i", "t">>,
   <<"i", "t", "s">>,
   <<"o", "f">>,
   <<"o", "n">>,
   <<"t", "h", "a", "t">>,
   <<"t", "h", "e">>,
   <<"t", "o">>,
   <<"w", "a", "s">>,
   <<"w", "i", "l", "l">>,
   <<"w", "i", "t", "h">>,
   <<"i", "m", "g">>,
   <<"i", "m", "a", "g", "e">>,
   <<"p", "h", "o", "t", "o">>,
   <<"p", "i", "c", "t", "u", "r", "e">>}
operators == {<<"a", "n", "d">>, <<"o", "r">>, <<"n", "o", "t">>}

w_beach == <<"b", "e", "a", "c", "h">>
w_sun == <<"s", "u", "n">>
w_sum == <<"s", "u", "m">>
w_jpg == <<"j", "p", "g">>
w_the == <<"t", "h", "e">>

\* the words a query is made of; none holds a quote, a colon or a wildcard
QueryWords == {w_beach, w_sun, w_sum, w_jpg, w_the}
Queries == UNION {[1..n -> QueryWords] : n \in 0..2}

R1 == [name |-> <<"v", "a", "c", "a", "t", "i", "o", "n", "_", "b", "e", "a", "c", "h", ".", "j", "p", "g">>,
       tags |-> <<<<"b", "e", "a", "c", "h">>, <<"s", "u", "m", "m", "e", "r">>>>]
R2 == [name |-> <<"s", "u", "n", "s", "e", "t", "_", "m", "o", "u", "n", "t", "a", "i", "n", ".", "p", "n", "g">>,
       tags |-> <<<<"s", "u", "n", "s", "e", "t">>, <<"l", "a", "n", "d", "s", "c", "a", "p", "e">>>>]
RecordLists == {<<>>, <<R1>>, <<R2>>, <<R1, R2>>, <<R2, R1>>}

RECURSIVE join(_)
join(parts) ==
  IF parts = <<>> THEN <<>>
  ELSE IF Len(parts) = 1 THEN Head(parts)
  ELSE Head(parts) \o <<" ">> \o join(Tail(parts))

\* term in text
Contains(term, text) ==
  \E i \in 1..(Len(text) - Len(term) + 1) : SubSeq(text, i, i + Len(term) - 1) = term
startswith(text, term) ==
  Len(term) <= Len(text) /\ SubSeq(text, 1, Len(term)) = term

\* the terms of a query without phrases, field searches and wildcards
_parse_query(query) ==
  SelectSeq(query, LAMBDA term : term \notin operators /\ term \notin stopwords)

\* metadata is empty
_build_searchable_text(filename, tags) ==
  join((IF filename # <<>> THEN <<filename>> ELSE <<>>) \o tags)

_evaluate_query(terms, filename, tags) ==
  \A i \in DOMAIN terms :
    Contains(lower(terms[i]), lower(_build_searchable_text(filename, tags)))

\* no tag filters
matches_query(query, filename, tags) ==
  IF query = <<>> THEN TRUE
  ELSE _evaluate_query(_parse_query(query), filename, tags)

RECURSIVE SumSeq(_)
SumSeq(l) == IF l = <<>> THEN 0 ELSE Head(l) + SumSeq(Tail(l))

\* the score doubled: 3.0, 2.0, 1.5, 1.0 are 6, 4, 3, 2
_calculate_relevance(query, filename, tags) ==
  LET query_terms == [i \in DOMAIN query |-> lower(query[i])]
      filename_lower == lower(filename)
      tags_lower == [i \in DOMAIN tags |-> lower(tags[i])]
      name_score(term) ==
        IF Contains(term, filename_lower)
        THEN (IF startswith(filename_lower, term) THEN 6 ELSE 4) ELSE 0
      tag_score(term, tag) ==
        IF Contains(term, tag) THEN (IF tag = term THEN 3 ELSE 2) ELSE 0
  IN SumSeq([i \in DOMAIN query_terms |-> name_score(query_terms[i])])
     + SumSeq([i \in DOMAIN query_terms |->
                SumSeq([j \in DOMAIN tags_lower |->
                         tag_score(query_terms[i], tags_lower[j])])])

\* list.sort(key=score, reverse=True): stable, highest score first
RECURSIVE insert_by_score(_, _)
insert_by_score(x, l) ==
  IF l = <<>> THEN <<x>>
  ELSE IF Head(l).score >= x.score THEN <<Head(l)>> \o insert_by_score(x, Tail(l))
  ELSE <<x>> \o l
RECURSIVE sort_by_score(_)
sort_by_score(l) ==
  IF l = <<>> THEN <<>>
  ELSE insert_by_score(l[Len(l)], sort_by_score(SubSeq(l, 1, Len(l) - 1)))

search_and_rank(query, image_records) ==
  LET matching == SelectSeq(image_records,
                    LAMBDA r : matches_query(query, r.name, r.tags))
  IN sort_by_score([i \in DOMAIN matching |->
       [record |-> matching[i],
        score |-> _calculate_relevance(query, matching[i].name, matching[i].tags)]])

\* ------------------------------------------------------------------------
\* SessionManager
\* ------------------------------------------------------------------------
SessionManager__init__ ==
  [session_key |-> FALSE, last_activity_time |-> None, failed_attempts |-> 0,
   lockout_until |-> None, session_validated |-> FALSE]

_is_locked_out(se, now) ==
  IF se.lockout_until = None THEN FALSE ELSE now < se.lockout_until

_is_session_expired(se, now) ==
  IF se.last_activity_time = None THEN TRUE
  ELSE now - se.last_activity_time > timeout_minutes

_cleanup_session(se) ==
  [se EXCEPT !.session_key = FALSE, !.last_activity_time = None,
             !.session_validated = FALSE]

\* create_session without the lockout test
create_session_no_lockout(se, now) ==
  [ok |-> TRUE,
   session |-> [session_key |-> TRUE, last_activity_time |-> now,
                failed_attempts |-> 0, lockout_until |-> None,
                session_validated |-> TRUE]]


create_session(se, now) ==
  IF _is_locked_out(se, now) THEN [ok |-> FALSE, session |-> se]
  ELSE [ok |-> TRUE,
        session |-> [session_key |-> TRUE, last_activity_time |-> now,
                     failed_attempts |-> 0, lockout_until |-> None,
                     session_validated |-> TRUE]]

\* record_failed_attempt that sets the lockout and leaves the session
record_failed_attempt_keeps_session(se, now) ==
  LET n == se.failed_attempts + 1 IN
  IF n >= max_failed_attempts
  THEN [se EXCEPT !.failed_attempts = n,
                  !.lockout_until = now + lockout_duration_minutes]
  ELSE [se EXCEPT !.failed_attempts = n]

record_failed_attempt(se, now) ==
  LET n == se.failed_attempts + 1 IN
  IF n >= max_failed_attempts
  THEN _cleanup_session([se EXCEPT !.failed_attempts = n,
                                   !.lockout_until = now + lockout_duration_minutes])
  ELSE [se EXCEPT !.failed_attempts = n]

validate_session(se, now) ==
  IF ~se.session_validated \/ ~se.session_key THEN [ok |-> FALSE, session |-> se]
  ELSE IF _is_locked_out(se, now) THEN [ok |-> FALSE, session |-> _cleanup_session(se)]
  ELSE IF _is_session_expired(se, now) THEN [ok |-> FALSE, session |-> _cleanup_session(se)]
  ELSE [ok |-> TRUE, session |-> [se EXCEPT !.last_activity_time = now]]

\* destroy_session that leaves the session as it is
destroy_session_noop(se) == se

destroy_session(se) == _cleanup_session(se)

\* matches: the password's hash equals the stored one, which exists only
\* while a session does (_cleanup_session sets it to None)
renew_session(se, matches, now) ==
  IF ~(matches /\ se.session_key)
  THEN [ok |-> FALSE, session |-> record_failed_attempt(se, now)]
  ELSE IF ~se.session_validated THEN [ok |-> FALSE, session |-> se]
  ELSE [ok |-> TRUE, session |-> [se EXCEPT !.last_activity_time = now]]

\* extend_session(minutes): validate_session first; minutes = 0 is None
extend_session(se, minutes, now) ==
  LET v == validate_session(se, now) IN
  IF ~v.ok THEN [ok |-> FALSE, session |-> v.session]
  ELSE [ok |-> TRUE,
        session |-> [v.session EXCEPT !.last_activity_time = now + minutes]]

\* ------------------------------------------------------------------------
\* VaultManager
\* ------------------------------------------------------------------------
\* create_vault: directories, vault.config, and a vault.key without a salt
create_vault(vt) == [vt EXCEPT !.exists = TRUE, !.salt = 0]

vault_exists(vt) == vt.exists

\* ---- vault.config ----
\* the file: vault_id is 0 and the times are -1 while the file holds no such key;
\* uuids is history, the number of uuid4() values drawn so far
config_missing ==
  [exists |-> FALSE, vault_id |-> 0, version |-> "", created_at |-> 0 - 1,
   modified_at |-> 0 - 1, max_file_size |-> 0, uuids |-> 0]

\* the part of create_vault that writes vault.config
create_vault_config(cf, now) ==
  [exists |-> TRUE, vault_id |-> cf.uuids + 1, version |-> "1.0.0",
   created_at |-> now, modified_at |-> 0 - 1, max_file_size |-> 100,
   uuids |-> cf.uuids + 1]

\* the dictionaries a caller passes: one key, or none
ConfigUpdates ==
  {[k \in {} |-> 0]}
    \cup [{"max_file_size"} -> {50, 100}]
    \cup [{"vault_id"} -> {9}]
    \cup [{"version"} -> {"2.0.0"}]
    \cup [{"created_at"} -> {0}]

\* existing_config.update(config); modified_at = now; written back
update_vault_config(cf, config, now) ==
  LET val(k) == IF k \in DOMAIN config THEN config[k] ELSE cf[k] IN
  [exists |-> TRUE, vault_id |-> val("vault_id"), version |-> val("version"),
   created_at |-> val("created_at"), modified_at |-> now,
   max_file_size |-> val("max_file_size"), uuids |-> cf.uuids]

\* ------------------------------------------------------------------------
\* GraphiVaultCore: lifecycle
\* ------------------------------------------------------------------------
GraphiVaultCore__init__ == [is_initialized |-> FALSE, storage |-> FALSE]

\* StorageInterface(db_path, crypto): creates database/vault.db when missing
StorageInterface__init__(vt) == [vt EXCEPT !.db = TRUE]

initialize_vault(cr, se, co, vt, pw, now, g) ==
  LET vt1 == create_vault(vt)
      cr1 == initialize_master_key(cr, pw, g)
      vt2 == save_crypto_params(vt1, cr1)
      cs  == create_session(se, now)
  IN IF ~cs.ok
     THEN [ok |-> FALSE, crypto |-> cr1, session |-> se, core |-> co, vault |-> vt2]
     ELSE [ok |-> TRUE, crypto |-> cr1, session |-> cs.session,
           core |-> [is_initialized |-> TRUE, storage |-> TRUE],
           vault |-> StorageInterface__init__(vt2)]

unlock_vault(cr, se, co, vt, pw, now) ==
  IF ~vault_exists(vt)
  THEN [ok |-> FALSE, crypto |-> cr, session |-> se, core |-> co, vault |-> vt]
  ELSE LET lp == load_crypto_params(cr, vt) IN
    IF ~lp.ok
    THEN [ok |-> FALSE, crypto |-> cr, session |-> se, core |-> co, vault |-> vt]
    ELSE IF ~verify_master_key(lp.crypto, pw)
    THEN [ok |-> FALSE, crypto |-> lp.crypto,
          session |-> record_failed_attempt(se, now), core |-> co, vault |-> vt]
    ELSE LET cs == create_session(se, now) IN
      IF ~cs.ok
      THEN [ok |-> FALSE, crypto |-> lp.crypto, session |-> se, core |-> co, vault |-> vt]
      ELSE [ok |-> TRUE, crypto |-> lp.crypto, session |-> cs.session,
            core |-> [is_initialized |-> TRUE, storage |-> TRUE],
            vault |-> StorageInterface__init__(vt)]

lock_vault(cr, se, co) ==
  [ok |-> TRUE, crypto |-> clear_keys(cr), session |-> destroy_session(se),
   core |-> [co EXCEPT !.is_initialized = FALSE]]

\* ------------------------------------------------------------------------
\* StorageInterface: statements on the images table
\* ------------------------------------------------------------------------
Row(id, h, thumb) == [id |-> id, file_hash |-> h, thumbnail_path |-> thumb]

RowsById(rows, id) == {r \in rows : r.id = id}
RowsByHash(rows, h) == {r \in rows : r.file_hash = h}

\* INSERT with file_hash not declared UNIQUE
store_image_no_unique(rows, rec) ==
  IF RowsById(rows, rec.id) # {}
  THEN [ok |-> FALSE, rows |-> rows]
  ELSE [ok |-> TRUE, rows |-> rows \cup {rec}]

\* INSERT INTO images: rejected by id PRIMARY KEY or file_hash UNIQUE,
\* the exception is caught and False returned
store_image(rows, rec) ==
  IF RowsById(rows, rec.id) # {} \/ RowsByHash(rows, rec.file_hash) # {}
  THEN [ok |-> FALSE, rows |-> rows]
  ELSE [ok |-> TRUE, rows |-> rows \cup {rec}]

\* SELECT * FROM images WHERE id = ?
get_image(rows, id) == RowsById(rows, id)

\* SELECT * FROM images WHERE file_hash = ?
get_image_by_hash(rows, h) == RowsByHash(rows, h)

\* DELETE FROM images WHERE id = ? ; returns rowcount > 0
delete_image(rows, id) ==
  [ok |-> RowsById(rows, id) # {}, rows |-> rows \ RowsById(rows, id)]

\* UPDATE images SET <whitelisted fields> WHERE id = ? ; file_hash and id are
\* not in allowed_fields.  accepted = FALSE is the statement being rejected
\* (it also names updated_at, a column the CREATE TABLE does not define).
update_image(rows, id, thumb, accepted) ==
  IF ~accepted THEN [ok |-> FALSE, rows |-> rows]
  ELSE [ok |-> RowsById(rows, id) # {},
        rows |-> {IF r.id = id THEN [r EXCEPT !.thumbnail_path = thumb] ELSE r : r \in rows}]

\* ------------------------------------------------------------------------
\* GraphiVaultCore: data plane
\* ------------------------------------------------------------------------
_is_duplicate(co, rows, h) ==
  IF co.storage THEN get_image_by_hash(rows, h) # {} ELSE FALSE

\* _store_image_record: the result of store_image is dropped
_store_image_record(co, rows, rec) ==
  IF co.storage THEN store_image(rows, rec).rows ELSE rows

_get_image_record(co, rows, id) ==
  IF co.storage THEN get_image(rows, id) ELSE {}

\* _delete_image_record: the result of delete_image is dropped
_delete_image_record(co, rows, id) ==
  IF co.storage THEN delete_image(rows, id).rows ELSE rows

\* delete_image leaving the thumbnail file behind
core_delete_image_keeps_thumbnail(co, rows, bl, th, id) ==
  LET rec == _get_image_record(co, rows, id) IN
  IF rec = {} THEN [ok |-> FALSE, rows |-> rows, blobs |-> bl, thumbs |-> th]
  ELSE [ok |-> TRUE,
        rows |-> _delete_image_record(co, rows, id),
        blobs |-> [bl EXCEPT ![id] = 0],
        thumbs |-> th]

\* delete_image past its _is_initialized guard: _secure_delete_file on the blob
\* and on the thumbnail when the record names one, then the row
core_delete_image(co, rows, bl, th, id) ==
  LET rec == _get_image_record(co, rows, id) IN
  IF rec = {} THEN [ok |-> FALSE, rows |-> rows, blobs |-> bl, thumbs |-> th]
  ELSE LET r == CHOOSE x \in rec : TRUE IN
       [ok |-> TRUE,
        rows |-> _delete_image_record(co, rows, id),
        blobs |-> [bl EXCEPT ![id] = 0],
        thumbs |-> IF r.thumbnail_path THEN th \ {id} ELSE th]

\* get_image past its guard: "data" when bytes are returned, else None
core_get_image(co, cr, rows, bl, id, decrypt) ==
  IF _get_image_record(co, rows, id) = {} THEN FALSE
  ELSE IF bl[id] = 0 THEN FALSE
  ELSE IF decrypt THEN cr.session_key # 0 /\ cr.session_key = bl[id]
  ELSE TRUE

\* ------------------------------------------------------------------------
\* State machine
\* ------------------------------------------------------------------------
R0 == [op |-> "none", via |-> "core", ok |-> FALSE, err |-> "", id |-> 0,
       hash |-> "", unlocked |-> FALSE, expired |-> FALSE, correct |-> FALSE,
       locked_out |-> FALSE, bad3 |-> FALSE, existed |-> FALSE, dup |-> FALSE,
       changed |-> FALSE, insert |-> "", elapsed |-> FALSE, logged |-> FALSE]

\* cryptio: the last encryption (its kind, input and key), the bytes it
\* produced with the offsets changed since, and the last decryption result
C0 == [op |-> "none", enc |-> "", input |-> <<>>, keygen |-> 0, data |-> <<>>,
       flipped |-> {}, ok |-> FALSE, out |-> <<>>, outfile |-> FALSE]

\* proc: stdout and stderr hold one entry per thing written ("json" for a
\* JSON document, "text" for a line that is not one); success is the success
\* field of the document on stdout; leaked holds the secrets that appear in
\* an error output
P0 == [command |-> "none", stdout |-> <<>>, stderr |-> <<>>, exit |-> 0,
       success |-> FALSE, error |-> "", leaked |-> {}]

L0 == [hash |-> "", id |-> 0, via |-> "core", expired |-> FALSE, dup |-> FALSE,
       thumbnail_path |-> FALSE]

AllIdle == \A t \in Threads : pc[t] = "idle"

\* no entry-point call for longer than the idle timeout
IdleExpired == clock - activity > timeout_minutes

Correct(pw) == vault.exists /\ pw = vault_pw

Min(a, b) == IF a < b THEN a ELSE b

\* ---- VaultManager.validate_vault_integrity ----
DirNames == {"data", "thumbnails", "temp", "metadata", "backups"}

\* the directory before create_vault; report is the last integrity report,
\* with orphans (history) the blob files without a row when it was made
vdir0 ==
  [dirs |-> {}, config |-> FALSE, key |-> FALSE,
   report |-> [op |-> "none", valid |-> FALSE, issues |-> {}, orphans |-> {}]]

\* create_vault: the directories, vault.config and vault.key
create_vault_entries(vd) ==
  [vd EXCEPT !.dirs = DirNames, !.config = TRUE, !.key = TRUE]

\* _find_orphaned_files: visits data/*.enc and thumbnails/*_thumb.jpg, the
\* loop bodies are pass; orphaned is returned as it was created
_find_orphaned_files(vd, data_files, rows) == {}

validate_vault_integrity(vd, data_files, rows) ==
  LET missing_dirs == {[kind |-> "Missing directory", name |-> d] : d \in DirNames \ vd.dirs}
      missing_config == IF vd.config THEN {}
                        ELSE {[kind |-> "Missing or invalid vault configuration", name |-> ""]}
      missing_key == IF vd.key THEN {}
                     ELSE {[kind |-> "Missing vault key file", name |-> ""]}
      orphaned == {[kind |-> "Orphaned file", name |-> f] :
                     f \in _find_orphaned_files(vd, data_files, rows)}
  IN [valid |-> (missing_dirs \cup missing_config \cup missing_key = {}),
      issues |-> missing_dirs \cup missing_config \cup missing_key \cup orphaned]

gw_bad0 == 0

relock0 == [st |-> "none", pw |-> ""]

\* SessionManager has no lock.  at: where the thread is; tmp: the value of
\* _failed_attempts it has loaded; calls is history, the number of bad
\* attempts recorded since the last successful create_session; stale_true is
\* history, a validate_session has returned True for a destroyed session
smthreads0 ==
  [at |-> [t \in Threads |-> "idle"], tmp |-> [t \in Threads |-> 0],
   calls |-> 0, stale_true |-> FALSE]

Init ==
  /\ crypto = CryptoController__init__
  /\ session = SessionManager__init__
  /\ core = GraphiVaultCore__init__
  /\ gateway = [core |-> FALSE, storage |-> FALSE]
  /\ vault = [exists |-> FALSE, salt |-> 0, db |-> FALSE]
  /\ images = {}
  /\ blobs = [i \in Ids |-> 0]
  /\ thumbs = {}
  /\ clock = 0
  /\ gens = 0
  /\ next_id = 0
  /\ pc = [t \in Threads |-> "idle"]
  /\ local = [t \in Threads |-> L0]
  /\ ret = R0
  /\ vault_pw = ""
  /\ added = {}
  /\ locked_since = FALSE
  /\ activity = 0
  /\ consec_bad = 0
  /\ cryptio = C0
  /\ proc = P0
  /\ audit = [exists |-> FALSE, file |-> <<>>, rotated |-> 0]
  /\ tagio = [op |-> "none", given |-> <<>>, tags |-> <<>>, all_str |-> TRUE]
  /\ searchio = [op |-> "none", query |-> <<>>, records |-> <<>>, results |-> <<>>]
  /\ vconfig = config_missing
  /\ logdir = logdir0
  /\ logthreads = logthreads0
  /\ smthreads = smthreads0
  /\ vdir = vdir0
  /\ gw_bad = gw_bad0
  /\ relock = relock0

Tick ==
  /\ clock + TickStep <= MaxTime
  /\ clock' = clock + TickStep
  /\ UNCHANGED <<libVars, crypto, session, core, gateway, vault, images, blobs, thumbs,
                 gens, next_id, pc, local, ret, vault_pw, added, locked_since,
                 activity, consec_bad>>

\* GraphiVaultCore(vault_path): a new Core object over the same directory
FreshCore ==
  /\ AllIdle
  /\ ~gateway.core
  /\ crypto' = CryptoController__init__
  /\ session' = SessionManager__init__
  /\ core' = GraphiVaultCore__init__
  /\ locked_since' = FALSE
  /\ consec_bad' = 0
  /\ activity' = clock
  /\ ret' = [R0 EXCEPT !.op = "new_core", !.ok = TRUE]
  /\ UNCHANGED <<libVars, gateway, vault, images, blobs, thumbs, clock, gens, next_id,
                 pc, local, vault_pw, added>>

CoreInitialize(pw) ==
  /\ gens < MaxGen
  /\ LET r == initialize_vault(crypto, session, core, vault, pw, clock, gens + 1) IN
     /\ crypto' = r.crypto
     /\ session' = r.session
     /\ core' = r.core
     /\ vault' = r.vault
     /\ locked_since' = IF r.ok THEN FALSE ELSE locked_since
     /\ ret' = [R0 EXCEPT !.op = "initialize_vault", !.ok = r.ok,
                          !.unlocked = core.is_initialized,
                          !.locked_out = _is_locked_out(session, clock)]
  /\ gens' = gens + 1
  /\ vault_pw' = pw
  /\ consec_bad' = 0
  /\ activity' = clock
  /\ UNCHANGED <<libVars, gateway, images, blobs, thumbs, clock, next_id, pc, local, added>>

\* what lock_vault and unlock_vault on a Core leave alone
relockFrame == <<cryptio, proc, audit, tagio, searchio, vconfig, logdir, logthreads, smthreads, vdir, gw_bad>>

CoreUnlock(pw) ==
  /\ session.failed_attempts < MaxFailed
  /\ LET r == unlock_vault(crypto, session, core, vault, pw, clock) IN
     /\ crypto' = r.crypto
     /\ session' = r.session
     /\ core' = r.core
     /\ vault' = r.vault
     /\ locked_since' = IF r.ok THEN FALSE ELSE locked_since
     /\ relock' = IF ~r.ok THEN relock
                  ELSE IF relock.st = "locked" /\ pw = relock.pw
                  THEN [relock EXCEPT !.st = "reopened"]
                  ELSE relock0
     /\ ret' = [R0 EXCEPT !.op = "unlock_vault", !.ok = r.ok,
                          !.unlocked = core.is_initialized,
                          !.correct = Correct(pw),
                          !.locked_out = _is_locked_out(session, clock),
                          !.bad3 = (consec_bad >= max_failed_attempts)]
  /\ consec_bad' = IF Correct(pw) THEN 0 ELSE Min(consec_bad + 1, max_failed_attempts)
  /\ activity' = clock
  /\ UNCHANGED <<relockFrame, gateway, images, blobs, thumbs, clock, gens, next_id, pc,
                 local, vault_pw, added>>

CoreLock ==
  /\ LET r == lock_vault(crypto, session, core) IN
     /\ crypto' = r.crypto
     /\ session' = r.session
     /\ core' = r.core
     /\ locked_since' = (r.ok \/ locked_since)
     /\ relock' = IF r.ok THEN [st |-> "locked", pw |-> vault_pw] ELSE relock
     /\ ret' = [R0 EXCEPT !.op = "lock_vault", !.ok = r.ok,
                          !.unlocked = core.is_initialized]
  /\ activity' = clock
  /\ UNCHANGED <<relockFrame, gateway, vault, images, blobs, thumbs, clock, gens, next_id,
                 pc, local, vault_pw, added, consec_bad>>

\* SessionManager.validate_session / is_session_active
ValidateSession ==
  /\ LET r == validate_session(session, clock) IN
     /\ session' = r.session
     /\ ret' = [R0 EXCEPT !.op = "validate_session", !.ok = r.ok,
                          !.unlocked = core.is_initialized,
                          !.expired = IdleExpired]
  /\ activity' = clock
  /\ UNCHANGED <<libVars, crypto, core, gateway, vault, images, blobs, thumbs, clock,
                 gens, next_id, pc, local, vault_pw, added, locked_since,
                 consec_bad>>

\* ---- add_image, one thread: hash and duplicate check -------------------
\* via = "gw" is IPCGateway.add_image, which checks self.core and
\* self.core._is_initialized and then calls GraphiVaultCore.add_image
AddBegin(t, h, via, valid, N) ==
  /\ pc[t] = "idle"
  /\ activity' = clock
  /\ LET pre == [R0 EXCEPT !.op = "add_image", !.via = via, !.hash = h,
                           !.unlocked = core.is_initialized,
                           !.expired = IdleExpired,
                           !.dup = (\E a \in added : a.file_hash = h)]
     IN
     IF via = "gw" /\ ~gateway.core
     THEN /\ ret' = [pre EXCEPT !.err = "Vault not initialized"]
          /\ UNCHANGED <<pc, local, next_id>>
     ELSE IF ~core.is_initialized
     THEN /\ ret' = [pre EXCEPT !.err = "NotUnlocked"]
          /\ UNCHANGED <<pc, local, next_id>>
     ELSE IF ~valid
     THEN /\ ret' = [pre EXCEPT !.err = "Invalid image file"]
          /\ UNCHANGED <<pc, local, next_id>>
     ELSE IF _is_duplicate(core, images, h)
     THEN /\ ret' = [pre EXCEPT !.err = "Duplicate"]
          /\ UNCHANGED <<pc, local, next_id>>
     ELSE /\ next_id < N
          /\ next_id' = next_id + 1
          /\ pc' = [pc EXCEPT ![t] = "encrypt"]
          /\ local' = [local EXCEPT ![t] = [hash |-> h, id |-> next_id + 1, via |-> via,
                                            expired |-> pre.expired, dup |-> pre.dup,
                                            thumbnail_path |-> FALSE]]
          /\ UNCHANGED ret
  /\ UNCHANGED <<libVars, crypto, session, core, gateway, vault, images, blobs, thumbs,
                 clock, gens, vault_pw, added, locked_since, consec_bad>>

AddRet(t) == [R0 EXCEPT !.op = "add_image", !.via = local[t].via,
                        !.hash = local[t].hash, !.id = local[t].id,
                        !.unlocked = TRUE, !.expired = local[t].expired,
                        !.dup = local[t].dup]

\* ---- add_image: encrypt_file to data/<id>.enc, then create_thumbnail ----
AddEncrypt(t, thumb_ok) ==
  /\ pc[t] = "encrypt"
  /\ IF crypto.session_key = 0
     THEN /\ ret' = [AddRet(t) EXCEPT !.err = "Session key not initialized"]
          /\ pc' = [pc EXCEPT ![t] = "idle"]
          /\ local' = [local EXCEPT ![t] = L0]
          /\ UNCHANGED <<blobs, thumbs>>
     ELSE /\ blobs' = [blobs EXCEPT ![local[t].id] = crypto.session_key]
          /\ thumbs' = IF thumb_ok THEN thumbs \cup {local[t].id} ELSE thumbs
          /\ pc' = [pc EXCEPT ![t] = "store"]
          /\ local' = [local EXCEPT ![t].thumbnail_path = thumb_ok]
          /\ UNCHANGED ret
  /\ UNCHANGED <<libVars, crypto, session, core, gateway, vault, images, clock, gens,
                 next_id, vault_pw, added, locked_since, activity, consec_bad>>

\* ---- add_image: encrypt_tags, encrypt_data, _store_image_record, return --
AddStore(t) ==
  /\ pc[t] = "store"
  /\ IF crypto.tag_keychain = 0 \/ crypto.session_key = 0
     THEN /\ ret' = [AddRet(t) EXCEPT !.err = "Tag encryption failed"]
          /\ UNCHANGED <<images, added>>
     ELSE /\ images' = _store_image_record(core, images,
                          Row(local[t].id, local[t].hash, local[t].thumbnail_path))
          /\ added' = added \cup {[id |-> local[t].id, file_hash |-> local[t].hash]}
          /\ ret' = [AddRet(t) EXCEPT
                       !.ok = TRUE,
                       !.insert = IF core.storage
                                     /\ store_image(images,
                                          Row(local[t].id, local[t].hash,
                                              local[t].thumbnail_path)).ok
                                  THEN "stored" ELSE "failed"]
  /\ pc' = [pc EXCEPT ![t] = "idle"]
  /\ local' = [local EXCEPT ![t] = L0]
  /\ UNCHANGED <<libVars, crypto, session, core, gateway, vault, blobs, thumbs, clock,
                 gens, next_id, vault_pw, locked_since, activity, consec_bad>>

CoreGetImage(id, decrypt) ==
  /\ ret' = [R0 EXCEPT !.op = "get_image", !.id = id,
                       !.unlocked = core.is_initialized, !.expired = IdleExpired,
                       !.existed = (RowsById(images, id) # {}),
                       !.ok = (core.is_initialized
                               /\ core_get_image(core, crypto, images, blobs, id, decrypt)),
                       !.err = IF core.is_initialized THEN "" ELSE "NotUnlocked"]
  /\ activity' = clock
  /\ UNCHANGED <<libVars, crypto, session, core, gateway, vault, images, blobs, thumbs,
                 clock, gens, next_id, pc, local, vault_pw, added, locked_since,
                 consec_bad>>

CoreDeleteImage(id) ==
  /\ LET pre == [R0 EXCEPT !.op = "delete_image", !.id = id,
                           !.unlocked = core.is_initialized,
                           !.expired = IdleExpired,
                           !.existed = (RowsById(images, id) # {})]
         r == core_delete_image(core, images, blobs, thumbs, id)
     IN
     IF ~core.is_initialized
     THEN /\ ret' = [pre EXCEPT !.err = "NotUnlocked"]
          /\ UNCHANGED <<images, blobs, thumbs, added>>
     ELSE /\ ret' = [pre EXCEPT !.ok = r.ok]
          /\ images' = r.rows
          /\ blobs' = r.blobs
          /\ thumbs' = r.thumbs
          /\ added' = IF r.ok THEN {a \in added : a.id # id} ELSE added
  /\ activity' = clock
  /\ UNCHANGED <<libVars, crypto, session, core, gateway, vault, clock, gens, next_id,
                 pc, local, vault_pw, locked_since, consec_bad>>

CoreSearchImages ==
  /\ ret' = [R0 EXCEPT !.op = "search_images",
                       !.unlocked = core.is_initialized, !.expired = IdleExpired,
                       !.ok = core.is_initialized,
                       !.err = IF core.is_initialized THEN "" ELSE "NotUnlocked"]
  /\ activity' = clock
  /\ UNCHANGED <<libVars, crypto, session, core, gateway, vault, images, blobs, thumbs,
                 clock, gens, next_id, pc, local, vault_pw, added, locked_since,
                 consec_bad>>

\* ------------------------------------------------------------------------
\* IPCGateway (one gateway object; its core is the Core of this model)
\* ------------------------------------------------------------------------
GwInitialize(pw) ==
  /\ AllIdle
  /\ gens < MaxGen
  /\ LET r == initialize_vault(CryptoController__init__, SessionManager__init__,
                               GraphiVaultCore__init__, vault, pw, clock, gens + 1) IN
     /\ crypto' = r.crypto
     /\ session' = r.session
     /\ core' = r.core
     /\ vault' = r.vault
     /\ gateway' = [core |-> TRUE, storage |-> (r.ok \/ gateway.storage)]
     /\ ret' = [R0 EXCEPT !.op = "initialize_vault", !.via = "gw", !.ok = r.ok]
  /\ gens' = gens + 1
  /\ vault_pw' = pw
  /\ locked_since' = FALSE
  /\ consec_bad' = 0
  /\ activity' = clock
  /\ UNCHANGED <<libVars, images, blobs, thumbs, clock, next_id, pc, local, added>>

\* what unlock_vault through the gateway leaves alone
gwUnlockFrame == <<cryptio, proc, audit, tagio, searchio, vconfig, logdir, logthreads, smthreads, vdir, relock>>

GwUnlock(pw) ==
  /\ AllIdle
  /\ LET missing == ~vault.exists \/ ~vault.db
         r == unlock_vault(CryptoController__init__, SessionManager__init__,
                           GraphiVaultCore__init__, vault, pw, clock)
         pre == [R0 EXCEPT !.op = "unlock_vault", !.via = "gw",
                           !.correct = Correct(pw),
                           !.bad3 = (gw_bad >= max_failed_attempts)]
     IN
     IF missing
     THEN /\ crypto' = CryptoController__init__
          /\ session' = SessionManager__init__
          /\ core' = GraphiVaultCore__init__
          /\ gateway' = [gateway EXCEPT !.core = TRUE]
          /\ ret' = [pre EXCEPT !.err = "Missing vault files"]
          /\ UNCHANGED <<vault, gw_bad>>
     ELSE /\ crypto' = r.crypto
          /\ session' = r.session
          /\ core' = r.core
          /\ vault' = r.vault
          /\ gateway' = [core |-> TRUE, storage |-> (r.ok \/ gateway.storage)]
          /\ ret' = [pre EXCEPT !.ok = r.ok]
          /\ gw_bad' = IF Correct(pw) THEN 0
                       ELSE Min(gw_bad + 1, max_failed_attempts)
  /\ locked_since' = FALSE
  /\ consec_bad' = IF Correct(pw) THEN 0 ELSE 1
  /\ activity' = clock
  /\ UNCHANGED <<gwUnlockFrame, images, blobs, thumbs, clock, gens, next_id, pc, local,
                 vault_pw, added>>

GwLock ==
  /\ AllIdle
  /\ IF ~gateway.core
     THEN /\ ret' = [R0 EXCEPT !.op = "lock_vault", !.via = "gw", !.ok = TRUE]
          /\ UNCHANGED <<crypto, session, core, gateway, locked_since>>
     ELSE LET r == lock_vault(crypto, session, core) IN
          /\ crypto' = r.crypto
          /\ session' = r.session
          /\ core' = r.core
          /\ gateway' = IF r.ok THEN [core |-> FALSE, storage |-> FALSE] ELSE gateway
          /\ locked_since' = (r.ok \/ locked_since)
          /\ ret' = [R0 EXCEPT !.op = "lock_vault", !.via = "gw", !.ok = r.ok,
                               !.unlocked = core.is_initialized]
  /\ activity' = clock
  /\ UNCHANGED <<libVars, vault, images, blobs, thumbs, clock, gens, next_id, pc, local,
                 vault_pw, added, consec_bad>>

\* the Core the gateway holds is unlocked
GwUnlocked == gateway.core /\ core.is_initialized

GwPre(op) == [R0 EXCEPT !.op = op, !.via = "gw", !.unlocked = GwUnlocked,
                        !.expired = IdleExpired]

GwGetImage(id, decrypt) ==
  /\ LET pre == [GwPre("get_image") EXCEPT !.id = id,
                                           !.existed = (RowsById(images, id) # {})] IN
     ret' = IF ~gateway.core THEN [pre EXCEPT !.err = "Vault not initialized"]
            ELSE IF decrypt
            THEN IF ~core.is_initialized THEN [pre EXCEPT !.err = "Get image error"]
                 ELSE IF core_get_image(core, crypto, images, blobs, id, TRUE)
                      THEN [pre EXCEPT !.ok = TRUE]
                      ELSE [pre EXCEPT !.err = "Image not found"]
            ELSE IF gateway.storage /\ get_image(images, id) # {}
                 THEN [pre EXCEPT !.ok = TRUE]
                 ELSE [pre EXCEPT !.err = "Image not found"]
  /\ activity' = clock
  /\ UNCHANGED <<libVars, crypto, session, core, gateway, vault, images, blobs, thumbs,
                 clock, gens, next_id, pc, local, vault_pw, added, locked_since,
                 consec_bad>>

GwGetAllImages ==
  /\ ret' = IF ~gateway.storage
            THEN [GwPre("get_all_images") EXCEPT !.err = "Storage not initialized"]
            ELSE [GwPre("get_all_images") EXCEPT !.ok = TRUE]
  /\ activity' = clock
  /\ UNCHANGED <<libVars, crypto, session, core, gateway, vault, images, blobs, thumbs,
                 clock, gens, next_id, pc, local, vault_pw, added, locked_since,
                 consec_bad>>

GwSearchImages ==
  /\ ret' = IF ~gateway.core \/ ~gateway.storage
            THEN [GwPre("search_images") EXCEPT !.err = "Vault not initialized"]
            ELSE [GwPre("search_images") EXCEPT !.ok = TRUE]
  /\ activity' = clock
  /\ UNCHANGED <<libVars, crypto, session, core, gateway, vault, images, blobs, thumbs,
                 clock, gens, next_id, pc, local, vault_pw, added, locked_since,
                 consec_bad>>

\* core.delete_image, and when it returns True, storage.delete_image again
gw_delete_image(gw, co, rows, bl, th, id) ==
  IF ~gw.core \/ ~gw.storage
  THEN [ok |-> FALSE, err |-> "Vault not initialized", deleted |-> FALSE,
        rows |-> rows, blobs |-> bl, thumbs |-> th]
  ELSE IF ~co.is_initialized
  THEN [ok |-> FALSE, err |-> "Delete error", deleted |-> FALSE,
        rows |-> rows, blobs |-> bl, thumbs |-> th]
  ELSE LET c == core_delete_image(co, rows, bl, th, id) IN
    IF ~c.ok
    THEN [ok |-> FALSE, err |-> "Failed to delete image files", deleted |-> FALSE,
          rows |-> c.rows, blobs |-> c.blobs, thumbs |-> c.thumbs]
    ELSE LET d == delete_image(c.rows, id) IN
      IF d.ok
      THEN [ok |-> TRUE, err |-> "", deleted |-> TRUE,
            rows |-> d.rows, blobs |-> c.blobs, thumbs |-> c.thumbs]
      ELSE [ok |-> FALSE, err |-> "Failed to delete from database", deleted |-> TRUE,
            rows |-> d.rows, blobs |-> c.blobs, thumbs |-> c.thumbs]

GwDeleteImage(id) ==
  /\ LET r == gw_delete_image(gateway, core, images, blobs, thumbs, id) IN
     /\ ret' = [GwPre("delete_image") EXCEPT !.id = id, !.ok = r.ok, !.err = r.err,
                                             !.existed = (RowsById(images, id) # {})]
     /\ images' = r.rows
     /\ blobs' = r.blobs
     /\ thumbs' = r.thumbs
     /\ added' = IF r.deleted THEN {a \in added : a.id # id} ELSE added
  /\ activity' = clock
  /\ UNCHANGED <<libVars, crypto, session, core, gateway, vault, clock, gens, next_id,
                 pc, local, vault_pw, locked_since, consec_bad>>

GwGetStats ==
  /\ ret' = IF ~gateway.storage
            THEN [GwPre("get_stats") EXCEPT !.err = "Storage not initialized"]
            ELSE [GwPre("get_stats") EXCEPT !.ok = TRUE]
  /\ activity' = clock
  /\ UNCHANGED <<libVars, crypto, session, core, gateway, vault, images, blobs, thumbs,
                 clock, gens, next_id, pc, local, vault_pw, added, locked_since,
                 consec_bad>>

OneThread == {"t1"}
OneHash == {"hA"}
OneId == {1}

\* add_image by the threads T on files with the hashes H, at most N ids drawn
AddImage(T, H, via, N) ==
  \/ \E t \in T, h \in H, valid \in BOOLEAN : AddBegin(t, h, via, valid, N)
  \/ \E t \in T, thumb_ok \in BOOLEAN : AddEncrypt(t, thumb_ok)
  \/ \E t \in T : AddStore(t)

CoreDataPlane(I) ==
  \/ \E id \in I, decrypt \in BOOLEAN : CoreGetImage(id, decrypt)
  \/ \E id \in I : CoreDeleteImage(id)
  \/ CoreSearchImages

\* one Core over time: lifecycle, session, and a single caller of the data plane
Next ==
  \/ Tick
  \/ FreshCore
  \/ \E pw \in Passwords : CoreInitialize(pw)
  \/ \E pw \in Passwords : CoreUnlock(pw)
  \/ CoreLock
  \/ ValidateSession
  \/ AddImage(OneThread, OneHash, "core", 1)
  \/ CoreDataPlane(OneId)

Spec == Init /\ [][Next]_vars

\* one Core used by several threads, all adding files of the same content
NextThreads ==
  \/ \E pw \in Passwords : CoreInitialize(pw)
  \/ CoreLock
  \/ AddImage(Threads, OneHash, "core", MaxImages)
  \/ CoreDataPlane(Ids)

SpecThreads == Init /\ [][NextThreads]_vars

\* one IPCGateway object and its commands
NextGateway ==
  \/ \E pw \in Passwords : GwInitialize(pw)
  \/ \E pw \in Passwords : GwUnlock(pw)
  \/ GwLock
  \/ AddImage(OneThread, Hashes, "gw", MaxImages)
  \/ \E id \in Ids, decrypt \in BOOLEAN : GwGetImage(id, decrypt)
  \/ GwGetAllImages
  \/ GwSearchImages
  \/ \E id \in Ids : GwDeleteImage(id)
  \/ GwGetStats

SpecGateway == Init /\ [][NextGateway]_vars

\* ---- StorageInterface used directly (as the storage tests do) ----------
OpenStorage ==
  /\ ~vault.db
  /\ vault' = StorageInterface__init__(vault)
  /\ ret' = [R0 EXCEPT !.op = "open_storage", !.via = "storage", !.ok = TRUE]
  /\ UNCHANGED <<libVars, crypto, session, core, gateway, images, blobs, thumbs, clock,
                 gens, next_id, pc, local, vault_pw, added, locked_since,
                 activity, consec_bad>>

StoreImage(id, h, thumb) ==
  /\ vault.db
  /\ LET r == store_image(images, Row(id, h, thumb)) IN
     /\ images' = r.rows
     /\ ret' = [R0 EXCEPT !.op = "store_image", !.via = "storage", !.ok = r.ok,
                          !.id = id, !.hash = h,
                          !.existed = (RowsById(images, id) # {}),
                          !.dup = (RowsByHash(images, h) # {}),
                          !.changed = (r.rows # images)]
  /\ UNCHANGED <<libVars, crypto, session, core, gateway, vault, blobs, thumbs, clock,
                 gens, next_id, pc, local, vault_pw, added, locked_since,
                 activity, consec_bad>>

UpdateImage(id, thumb, accepted) ==
  /\ vault.db
  /\ LET r == update_image(images, id, thumb, accepted) IN
     /\ images' = r.rows
     /\ ret' = [R0 EXCEPT !.op = "update_image", !.via = "storage", !.ok = r.ok,
                          !.id = id,
                          !.existed = (RowsById(images, id) # {}),
                          !.changed = (r.rows # images)]
  /\ UNCHANGED <<libVars, crypto, session, core, gateway, vault, blobs, thumbs, clock,
                 gens, next_id, pc, local, vault_pw, added, locked_since,
                 activity, consec_bad>>

DeleteImage(id) ==
  /\ vault.db
  /\ LET r == delete_image(images, id) IN
     /\ images' = r.rows
     /\ ret' = [R0 EXCEPT !.op = "delete_image", !.via = "storage", !.ok = r.ok,
                          !.id = id,
                          !.existed = (RowsById(images, id) # {}),
                          !.changed = (r.rows # images)]
  /\ UNCHANGED <<libVars, crypto, session, core, gateway, vault, blobs, thumbs, clock,
                 gens, next_id, pc, local, vault_pw, added, locked_since,
                 activity, consec_bad>>

NextStorage ==
  \/ OpenStorage
  \/ \E id \in Ids, h \in Hashes, thumb \in BOOLEAN : StoreImage(id, h, thumb)
  \/ \E id \in Ids, thumb, accepted \in BOOLEAN : UpdateImage(id, thumb, accepted)
  \/ \E id \in Ids : DeleteImage(id)

SpecStorage == Init /\ [][NextStorage]_vars

\* ---- CryptoController data path on a Core's keys -----------------------
\* one buffer is followed: encrypted once, possibly changed, then decrypted
Encrypted(kind, x, key, r) ==
  [C0 EXCEPT !.op = "encrypt", !.enc = kind, !.input = x,
             !.keygen = IF r.ok THEN key ELSE 0, !.data = r.data, !.ok = r.ok]

EncryptData(x, n) ==
  /\ cryptio.data = <<>>
  /\ cryptio' = Encrypted("data", x, crypto.session_key, encrypt_data(crypto, x, n))
  /\ UNCHANGED cryptoFrame

EncryptWithTagKeychain(x, n) ==
  /\ cryptio.data = <<>>
  /\ cryptio' = Encrypted("tag", x, crypto.tag_keychain,
                          encrypt_with_tag_keychain(crypto, x, n))
  /\ UNCHANGED cryptoFrame

EncryptFile(x, n) ==
  /\ cryptio.data = <<>>
  /\ cryptio' = Encrypted("file", x, crypto.session_key, encrypt_file(crypto, x, n))
  /\ UNCHANGED cryptoFrame

\* one byte of the stored bytes is changed, at offset o
FlipByte(o) ==
  /\ o < Len(cryptio.data)
  /\ cryptio.flipped = {}
  /\ cryptio' = [cryptio EXCEPT !.op = "flip", !.data[o + 1] = <<"x", o>>,
                                !.flipped = @ \cup {o},
                                !.ok = FALSE, !.out = <<>>, !.outfile = FALSE]
  /\ UNCHANGED cryptoFrame

Decrypted(op, r, outfile) ==
  [cryptio EXCEPT !.op = op, !.ok = r.ok, !.out = r.data, !.outfile = outfile]

DecryptData ==
  /\ cryptio.data # <<>>
  /\ cryptio' = Decrypted("decrypt_data", decrypt_data(crypto, cryptio.data), FALSE)
  /\ UNCHANGED cryptoFrame

DecryptWithTagKeychain ==
  /\ cryptio.data # <<>>
  /\ cryptio' = Decrypted("decrypt_with_tag_keychain",
                          decrypt_with_tag_keychain(crypto, cryptio.data), FALSE)
  /\ UNCHANGED cryptoFrame

DecryptFile ==
  /\ cryptio.data # <<>>
  /\ LET r == decrypt_file(crypto, cryptio.data) IN
     cryptio' = Decrypted("decrypt_file", r, r.outfile)
  /\ UNCHANGED cryptoFrame

\* GraphiVaultCore.get_image(id, decrypt=True) on the blob written by
\* encrypt_file: decrypt_file_to_memory, None when it raises
GetImageDecrypt ==
  /\ cryptio.enc = "file" /\ cryptio.data # <<>>
  /\ LET r == decrypt_file_to_memory(crypto, cryptio.data) IN
     cryptio' = IF ~core.is_initialized
                THEN Decrypted("get_image", [ok |-> FALSE, data |-> <<>>], FALSE)
                ELSE Decrypted("get_image", r, FALSE)
  /\ UNCHANGED cryptoFrame

OnePassword == {"p1"}

NextCrypto ==
  \/ \E pw \in OnePassword : CoreInitialize(pw)
  \/ CoreLock
  \/ \E x \in Plaintexts, n \in Nonces : EncryptData(x, n)
  \/ \E x \in Plaintexts, n \in Nonces : EncryptWithTagKeychain(x, n)
  \/ \E x \in Plaintexts, n \in Nonces : EncryptFile(x, n)
  \/ \E o \in 0..(nonce_size + tag_size + MaxLen - 1) : FlipByte(o)
  \/ DecryptData
  \/ DecryptWithTagKeychain
  \/ DecryptFile
  \/ GetImageDecrypt

SpecCrypto == Init /\ [][NextCrypto]_vars

\* ---- ipc_gateway.main: one process per command ------------------------
Commands == {"initialize", "unlock", "lock", "get_vault_status", "add_image",
             "get_image", "get_all_images", "search_images", "delete_image",
             "get_stats", "vault_exists", "bogus"}

\* stdin: nothing, text that is not JSON, or a JSON object; password is the
\* password written in the text (also when the text is not JSON), arg is
\* whether the other key the command requires is present
Payloads == [kind : {"empty", "malformed", "object"},
             password : {""} \cup Passwords, arg : BOOLEAN]

\* result dict -> print(json.dumps(result)); sys.exit(0 if success else 1)
Reply(vt, lines, ok, err) ==
  [stdout |-> lines \o <<"json">>, stderr |-> <<>>,
   exit |-> IF ok THEN 0 ELSE 1, success |-> ok, error |-> err,
   leaked |-> {}, vault |-> vt]

\* a new IPCGateway per process: self.core and self.storage are None
main(command, payload, vt, now, g) ==
  LET password == IF payload.kind = "object" THEN payload.password ELSE ""
      arg == payload.kind = "object" /\ payload.arg
  IN
  IF payload.kind = "malformed"
  THEN [stdout |-> <<>>, stderr |-> <<"json">>, exit |-> 1, success |-> FALSE,
        error |-> "Invalid JSON payload from stdin",
        leaked |-> {payload.password} \ {""}, vault |-> vt]
  ELSE IF command = "initialize"
  THEN IF password = "" THEN Reply(vt, <<>>, FALSE, "Password required")
       ELSE LET r == initialize_vault(CryptoController__init__, SessionManager__init__,
                                      GraphiVaultCore__init__, vt, password, now, g)
            IN Reply(r.vault, <<>>, r.ok,
                     IF r.ok THEN "" ELSE "Failed to initialize vault")
  ELSE IF command = "unlock"
  THEN IF password = "" THEN Reply(vt, <<>>, FALSE, "Password required")
       ELSE IF ~vt.exists \/ ~vt.db THEN Reply(vt, <<>>, FALSE, "Missing vault files")
       ELSE LET r == unlock_vault(CryptoController__init__, SessionManager__init__,
                                  GraphiVaultCore__init__, vt, password, now)
            IN Reply(r.vault, <<"text">>, r.ok,
                     IF r.ok THEN "" ELSE "Failed to unlock vault")
  ELSE IF command = "lock" THEN Reply(vt, <<>>, TRUE, "")
  ELSE IF command \in {"get_vault_status", "vault_exists"} THEN Reply(vt, <<>>, TRUE, "")
  ELSE IF command = "add_image"
  THEN Reply(vt, <<>>, FALSE, IF arg THEN "Vault not initialized"
                                     ELSE "File contents required")
  ELSE IF command \in {"get_image", "delete_image"}
  THEN Reply(vt, <<>>, FALSE, IF arg THEN "Vault not initialized"
                                     ELSE "Image ID required")
  ELSE IF command = "search_images"
  THEN Reply(vt, <<>>, FALSE, IF arg THEN "Vault not initialized" ELSE "Query required")
  ELSE IF command \in {"get_all_images", "get_stats"}
  THEN Reply(vt, <<>>, FALSE, "Storage not initialized")
  ELSE Reply(vt, <<>>, FALSE, "Unknown command")

Main(command, payload) ==
  /\ command = "initialize" => gens < MaxGen
  /\ LET r == main(command, payload, vault, clock, gens + 1)
         drew == command = "initialize" /\ payload.kind = "object"
                   /\ payload.password # ""
     IN /\ proc' = [command |-> command, stdout |-> r.stdout, stderr |-> r.stderr,
                    exit |-> r.exit, success |-> r.success, error |-> r.error,
                    leaked |-> r.leaked]
        /\ vault' = r.vault
        /\ gens' = IF drew THEN gens + 1 ELSE gens
        /\ vault_pw' = IF drew THEN payload.password ELSE vault_pw
  /\ UNCHANGED <<crypto, session, core, gateway, images, blobs, thumbs, clock,
                 next_id, pc, local, ret, added, locked_since, activity,
                 consec_bad, cryptio, audit, tagio, searchio, vconfig, logdir, logthreads, smthreads, vdir, gw_bad, relock>>

NextMain == \E command \in Commands, payload \in Payloads : Main(command, payload)

SpecMain == Init /\ [][NextMain]_vars

\* ---- AuditLogger ------------------------------------------------------
auditFrame == <<crypto, vaultVars, cryptio, proc, tagio, searchio, vconfig, logdir, logthreads, smthreads, vdir, gw_bad, relock>>

\* AuditLogger(path): the log file is created with its header when missing
NewAuditLogger ==
  /\ ~audit.exists
  /\ audit' = [audit EXCEPT !.exists = TRUE, !.file = <<header_entry>>]
  /\ UNCHANGED auditFrame

EventTypes == {"image_add_error"}

LogEvent(event_type, d) ==
  /\ audit.exists
  /\ audit' = log_event(audit, event_type, d)
  /\ UNCHANGED auditFrame

NextAudit ==
  \/ NewAuditLogger
  \/ \E event_type \in EventTypes, d \in EventData : LogEvent(event_type, d)

SpecAudit == Init /\ [][NextAudit]_vars

\* ---- TagManager -------------------------------------------------------
tagFrame == <<crypto, vaultVars, cryptio, proc, audit, searchio, vconfig, logdir, logthreads, smthreads, vdir, gw_bad, relock>>

\* encrypt_tags(tags): the stored list is _normalize_tags(tags); one list
\* per run, all_str is history: every element of that list was a str
NormalizeTags(L) ==
  /\ tagio.op = "none"
  /\ tagio' = [op |-> "normalize", given |-> L, tags |-> _normalize_tags(L),
               all_str |-> \A i \in DOMAIN L : L[i].is_str]
  /\ UNCHANGED tagFrame

\* the stored list is read back and given to encrypt_tags again
NormalizeAgain ==
  /\ tagio.op = "normalize"
  /\ tagio' = [op |-> "again", given |-> StrTags(tagio.tags),
               tags |-> _normalize_tags(StrTags(tagio.tags)),
               all_str |-> tagio.all_str]
  /\ UNCHANGED tagFrame

NextTags ==
  \/ \E L \in TagLists : NormalizeTags(L)
  \/ NormalizeAgain

SpecTags == Init /\ [][NextTags]_vars

searchFrame == <<crypto, vaultVars, cryptio, proc, audit, tagio, vconfig, logdir, logthreads, smthreads, vdir, gw_bad, relock>>

\* ---- SearchEngine ------------------------------------------------------
\* one search per run
SearchAndRank(query, image_records) ==
  /\ searchio.op = "none"
  /\ searchio' = [op |-> "search", query |-> query, records |-> image_records,
                  results |-> search_and_rank(query, image_records)]
  /\ UNCHANGED searchFrame

NextSearch ==
  \E query \in Queries, image_records \in RecordLists :
    SearchAndRank(query, image_records)

SpecSearch == Init /\ [][NextSearch]_vars

configFrame == <<crypto, vaultVars, cryptio, proc, audit, tagio, searchio, logdir, logthreads, smthreads, vdir, gw_bad, relock>>

\* ---- vault.config ------------------------------------------------------
\* VaultManager.create_vault, called directly or as the first step of
\* GraphiVaultCore.initialize_vault
CreateVault ==
  /\ vconfig.uuids < MaxGen
  /\ vconfig' = create_vault_config(vconfig, clock)
  /\ UNCHANGED configFrame

\* VaultManager.update_vault_config on a vault directory that exists
UpdateVaultConfig(config) ==
  /\ vconfig.exists
  /\ vconfig' = update_vault_config(vconfig, config, clock)
  /\ UNCHANGED configFrame

NextConfig ==
  \/ Tick
  \/ CreateVault
  \/ \E config \in ConfigUpdates : UpdateVaultConfig(config)

SpecConfig == Init /\ [][NextConfig]_vars

\* ---- SessionManager used on its own ------------------------------------
\* locked_since is history here too: destroy_session was called and no
\* create_session has succeeded since
sessionFrame == <<libVars, crypto, core, gateway, vault, images, blobs, thumbs, clock,
                  gens, next_id, pc, local, vault_pw, added, consec_bad>>

WindowElapsed == session.lockout_until # None /\ clock >= session.lockout_until

SmCreateSession ==
  /\ LET r == create_session(session, clock) IN
     /\ session' = r.session
     /\ locked_since' = IF r.ok THEN FALSE ELSE locked_since
     /\ ret' = [R0 EXCEPT !.op = "create_session", !.ok = r.ok,
                          !.locked_out = _is_locked_out(session, clock)]
  /\ UNCHANGED <<sessionFrame, activity>>

SmDestroySession ==
  /\ session' = destroy_session(session)
  /\ locked_since' = TRUE
  /\ ret' = [R0 EXCEPT !.op = "destroy_session", !.ok = TRUE]
  /\ UNCHANGED <<sessionFrame, activity>>

SmRecordFailedAttempt ==
  /\ session.failed_attempts < MaxFailed
  /\ session' = record_failed_attempt(session, clock)
  /\ ret' = [R0 EXCEPT !.op = "record_failed_attempt", !.ok = TRUE,
                       !.locked_out = _is_locked_out(session, clock),
                       !.elapsed = WindowElapsed]
  /\ UNCHANGED <<sessionFrame, activity, locked_since>>

SmRenewSession(matches) ==
  /\ session.failed_attempts < MaxFailed
  /\ LET r == renew_session(session, matches, clock) IN
     /\ session' = r.session
     /\ ret' = [R0 EXCEPT !.op = "renew_session", !.ok = r.ok,
                          !.locked_out = _is_locked_out(session, clock),
                          !.elapsed = WindowElapsed,
                          !.expired = (session.session_validated
                                       /\ _is_session_expired(session, clock))]
  /\ UNCHANGED <<sessionFrame, activity, locked_since>>

\* the session is marked valid and its idle timeout has passed
SessionTimedOut == session.session_validated /\ _is_session_expired(session, clock)

ExtendMinutes == {0, TickStep}

SmExtendSession(minutes) ==
  /\ LET r == extend_session(session, minutes, clock) IN
     /\ session' = r.session
     /\ ret' = [R0 EXCEPT !.op = "extend_session", !.ok = r.ok,
                          !.locked_out = _is_locked_out(session, clock),
                          !.expired = SessionTimedOut]
  /\ UNCHANGED <<sessionFrame, activity, locked_since>>

NextSession ==
  \/ Tick
  \/ SmCreateSession
  \/ ValidateSession
  \/ SmDestroySession
  \/ SmRecordFailedAttempt
  \/ \E matches \in BOOLEAN : SmRenewSession(matches)
  \/ \E minutes \in ExtendMinutes : SmExtendSession(minutes)

SpecSession == Init /\ [][NextSession]_vars

\* ---- GraphiVaultCore and its audit log, one caller -----------------------
\* ret.op = "<operation>_begin": the operation has written its first audit
\* entry and not yet changed any state; ret.logged: the operation that
\* returned ret has written its last audit entry
BeginEvent(op) ==
  CASE op = "initialize_vault" -> "vault_init_attempt"
    [] op = "unlock_vault" -> "vault_unlock_attempt"
    [] op = "lock_vault" -> "vault_lock"

\* the entry an operation writes after its state change; "" when it returns
\* without one
EndEvent(r) ==
  IF r.op = "initialize_vault" /\ r.ok THEN "vault_init_success"
  ELSE IF r.op = "unlock_vault" /\ r.ok THEN "vault_unlock_success"
  ELSE IF r.op = "add_image" /\ r.ok THEN "image_added"
  ELSE IF r.op = "add_image" /\ r.err \notin {"NotUnlocked", "Vault not initialized"}
  THEN "image_add_error"
  ELSE IF r.op = "delete_image" /\ r.ok THEN "image_deleted"
  ELSE ""

Begun == ret.op \in {"initialize_vault_begin", "unlock_vault_begin", "lock_vault_begin"}
Pending == ~ret.logged /\ EndEvent(ret) # ""
CallerIdle == audit.exists /\ AllIdle /\ ~Begun /\ ~Pending

coreAuditFrame == <<crypto, session, core, gateway, vault, images, blobs, thumbs, clock, gens, next_id, pc, local, vault_pw, added, locked_since, activity, consec_bad, cryptio, proc, tagio, searchio, vconfig, logdir, logthreads, smthreads, vdir, gw_bad, relock>>

timestamp_only == [k \in {"timestamp"} |-> "ok"]

\* the log_event call at the top of initialize_vault, unlock_vault, lock_vault
CoreBegin(op) ==
  /\ CallerIdle
  /\ audit' = log_event(audit, BeginEvent(op), timestamp_only)
  /\ ret' = [R0 EXCEPT !.op = op \o "_begin"]
  /\ UNCHANGED coreAuditFrame

\* the log_event call at the end of the operation that has just changed state
CoreEndLog ==
  /\ audit.exists
  /\ Pending
  /\ audit' = log_event(audit, EndEvent(ret), timestamp_only)
  /\ ret' = [ret EXCEPT !.logged = TRUE]
  /\ UNCHANGED coreAuditFrame

NextCoreAudit ==
  \/ NewAuditLogger
  \/ \E op \in {"initialize_vault", "unlock_vault", "lock_vault"} : CoreBegin(op)
  \/ ret.op = "initialize_vault_begin" /\ \E pw \in OnePassword : CoreInitialize(pw)
  \/ ret.op = "unlock_vault_begin" /\ \E pw \in Passwords : CoreUnlock(pw)
  \/ ret.op = "lock_vault_begin" /\ CoreLock
  \/ audit.exists /\ ~Begun /\ ~Pending /\ AddImage(OneThread, OneHash, "core", 1)
  \/ CallerIdle /\ CoreDeleteImage(1)
  \/ CoreEndLog

SpecCoreAudit == Init /\ [][NextCoreAudit]_vars

logFrame == <<crypto, vaultVars, cryptio, proc, audit, tagio, searchio, vconfig, logthreads, smthreads, vdir, gw_bad, relock>>

\* ---- the log files -----------------------------------------------------
\* file 0 is the current file, file i the rotated file .i
LogFileAt(ld, f) == IF f = 0 THEN ld.current ELSE ld.rotated[f]
LogFiles == 0..(max_log_files + 1)
AllLines(ld) == UNION {Elems(LogFileAt(ld, f).lines) : f \in LogFiles}

\* AuditLogger(path) where no log file exists
OpenLog ==
  /\ ~logdir.current.exists
  /\ logdir' = [logdir EXCEPT !.current = initialize_log_file(clock), !.last_op = "open"]
  /\ UNCHANGED logFrame

AppendEntry ==
  /\ logdir.current.exists
  /\ logdir.appended < MaxAppends
  /\ logdir' = append_entry(logdir, clock)
  /\ UNCHANGED logFrame

\* a line of a file is damaged on disk; one line per run
CorruptLine(f, i, state) ==
  /\ \A l \in AllLines(logdir) : l.state = "intact"
  /\ f \in 0..max_log_files
  /\ i \in DOMAIN LogFileAt(logdir, f).lines
  /\ state = "hash_mismatch" => LogFileAt(logdir, f).lines[i].kind = "entry"
  /\ logdir' =
       IF f = 0
       THEN [logdir EXCEPT !.current.lines[i].state = state, !.last_op = "corrupt"]
       ELSE [logdir EXCEPT !.rotated[f].lines[i].state = state, !.last_op = "corrupt"]
  /\ UNCHANGED logFrame

Ages == {TickStep, 2 * TickStep}

ClearLogs(older_than) ==
  /\ logdir.current.exists
  /\ logdir' = clear_logs(logdir, older_than, clock)
  /\ UNCHANGED logFrame

NextRotate ==
  \/ Tick
  \/ OpenLog
  \/ AppendEntry

SpecRotate == Init /\ [][NextRotate]_vars

NextTrim ==
  \/ Tick
  \/ OpenLog
  \/ AppendEntry
  \/ \E f \in LogFiles, i \in 1..MaxLog, state \in {"bad_json", "hash_mismatch"} :
       CorruptLine(f, i, state)
  \/ \E older_than \in Ages : ClearLogs(older_than)

SpecTrim == Init /\ [][NextTrim]_vars

logThreadsFrame == <<crypto, vaultVars, cryptio, proc, audit, tagio, searchio, vconfig, smthreads, vdir, gw_bad, relock>>

\* ---- threads calling AuditLogger objects of one log file ------------------
\* thread t calls op on object a and gets a's lock
EnterLocked(t, a, op) ==
  /\ logdir.current.exists
  /\ logthreads.at[t] = "idle"
  /\ logthreads.log_lock[a] = "free"
  /\ op = "log_event" => logdir.appended < MaxAppends
  /\ logthreads' = acquire_log_lock(logthreads, t, a, op)
  /\ UNCHANGED <<logThreadsFrame, logdir>>

\* the body of the with block, and the release of the lock
LeaveLocked(t) ==
  /\ logthreads.at[t] # "idle"
  /\ logdir' = CASE logthreads.at[t] = "log_event" -> append_entry(logdir, clock)
                 [] logthreads.at[t] = "clear_logs" -> clear_logs(logdir, TickStep, clock)
                 [] OTHER -> [logdir EXCEPT !.last_op = "verify_log_integrity"]
  /\ logthreads' = release_log_lock(logthreads, t)
  /\ UNCHANGED logThreadsFrame

NextLogThreads ==
  \/ OpenLog
  \/ \E t \in Threads, a \in Loggers, op \in LockedOps : EnterLocked(t, a, op)
  \/ \E t \in Threads : LeaveLocked(t)

SpecLogThreads == Init /\ [][NextLogThreads]_vars

smFrame == <<crypto, core, gateway, vault, images, blobs, thumbs, clock, gens, next_id, pc, local, ret, vault_pw, added, locked_since, activity, consec_bad, cryptio, proc, audit, tagio, searchio, vconfig, logdir, logthreads, vdir, gw_bad, relock>>

\* ---- SessionManager called by several threads --------------------------
SmIdle(t) == smthreads.at[t] = "idle"

\* record_failed_attempt: self._failed_attempts is loaded ...
RecordLoad(t) ==
  /\ SmIdle(t)
  /\ smthreads.calls < MaxFailed
  /\ smthreads' = [smthreads EXCEPT !.at[t] = "loaded",
                                    !.tmp[t] = session.failed_attempts]
  /\ UNCHANGED <<smFrame, session>>

\* ... and stored incremented; then the threshold test and the lockout
RecordStore(t) ==
  /\ smthreads.at[t] = "loaded"
  /\ session' = record_failed_attempt(
                  [session EXCEPT !.failed_attempts = smthreads.tmp[t]], clock)
  /\ smthreads' = [smthreads EXCEPT !.at[t] = "idle", !.tmp[t] = 0,
                                    !.calls = smthreads.calls + 1]
  /\ UNCHANGED smFrame

\* validate_session: the tests on _session_validated, lockout and timeout
ValidateCheck(t) ==
  /\ SmIdle(t)
  /\ LET r == validate_session(session, clock) IN
     IF r.ok
     THEN /\ smthreads' = [smthreads EXCEPT !.at[t] = "checked"]
          /\ UNCHANGED session
     ELSE /\ session' = r.session
          /\ UNCHANGED smthreads
  /\ UNCHANGED smFrame

\* validate_session: _last_activity_time = time.time(); return True
ValidateReturn(t) ==
  /\ smthreads.at[t] = "checked"
  /\ session' = [session EXCEPT !.last_activity_time = clock]
  /\ smthreads' = [smthreads EXCEPT
                     !.at[t] = "idle",
                     !.stale_true = (smthreads.stale_true \/ ~session.session_validated)]
  /\ UNCHANGED smFrame

ThreadCreateSession(t) ==
  /\ SmIdle(t)
  /\ LET r == create_session(session, clock) IN
     /\ session' = r.session
     /\ smthreads' = IF r.ok THEN [smthreads EXCEPT !.calls = 0] ELSE smthreads
  /\ UNCHANGED smFrame

ThreadDestroySession(t) ==
  /\ SmIdle(t)
  /\ session' = destroy_session(session)
  /\ UNCHANGED <<smFrame, smthreads>>

\* renew_session with the right password
ThreadRenewSession(t) ==
  /\ SmIdle(t)
  /\ session.session_key
  /\ session' = renew_session(session, TRUE, clock).session
  /\ UNCHANGED <<smFrame, smthreads>>

NextSessionThreads ==
  \E t \in Threads :
    \/ RecordLoad(t)
    \/ RecordStore(t)
    \/ ValidateCheck(t)
    \/ ValidateReturn(t)
    \/ ThreadCreateSession(t)
    \/ ThreadDestroySession(t)
    \/ ThreadRenewSession(t)

SpecSessionThreads == Init /\ [][NextSessionThreads]_vars

vdirFrame == <<crypto, vaultVars, cryptio, proc, audit, tagio, searchio, vconfig, logdir, logthreads, smthreads, gw_bad, relock>>

\* ---- the vault directory and its integrity report ----------------------
\* one report is followed: the directory changes until it is validated
NotValidated == vdir.report.op = "none"

\* the blob files data/<id>.enc without an images row for <id>
OrphanBlobs == {i \in Ids : blobs[i] # 0 /\ RowsById(images, i) = {}}

IntegrityCreateVault ==
  /\ NotValidated
  /\ vdir.dirs = {}
  /\ vdir' = create_vault_entries(vdir)
  /\ UNCHANGED vdirFrame

\* a directory other than data/, vault.config or vault.key is removed from
\* outside; one entry per run
RemoveEntry(e) ==
  /\ NotValidated
  /\ vdir = create_vault_entries(vdir)
  /\ vdir' = IF e = "vault.config" THEN [vdir EXCEPT !.config = FALSE]
             ELSE IF e = "vault.key" THEN [vdir EXCEPT !.key = FALSE]
             ELSE [vdir EXCEPT !.dirs = vdir.dirs \ {e}]
  /\ UNCHANGED vdirFrame

\* add_image writes data/<image_id>.enc (crypto.encrypt_file)
WriteBlob(id) ==
  /\ NotValidated
  /\ "data" \in vdir.dirs
  /\ blobs[id] = 0
  /\ blobs' = [blobs EXCEPT ![id] = 1]
  /\ UNCHANGED <<libVars, crypto, session, core, gateway, vault, images, thumbs, clock,
                 gens, next_id, pc, local, ret, vault_pw, added, locked_since,
                 activity, consec_bad>>

ValidateVaultIntegrity ==
  /\ NotValidated
  /\ LET r == validate_vault_integrity(vdir, {i \in Ids : blobs[i] # 0}, images) IN
     vdir' = [vdir EXCEPT !.report = [op |-> "validate_vault_integrity",
                                      valid |-> r.valid, issues |-> r.issues,
                                      orphans |-> OrphanBlobs]]
  /\ UNCHANGED vdirFrame

NextIntegrity ==
  \/ IntegrityCreateVault
  \/ \E e \in (DirNames \ {"data"}) \cup {"vault.config", "vault.key"} : RemoveEntry(e)
  \/ \E id \in Ids : WriteBlob(id)
  \/ NotValidated /\ "data" \in vdir.dirs /\ OpenStorage
  \/ NotValidated /\ \E id \in Ids, h \in Hashes : StoreImage(id, h, FALSE)
  \/ NotValidated /\ \E id \in Ids : DeleteImage(id)
  \/ ValidateVaultIntegrity

SpecIntegrity == Init /\ [][NextIntegrity]_vars


\* ------------------------------------------------------------------------
\* Properties
\* ------------------------------------------------------------------------
CoreDataOps == {"add_image", "get_image", "delete_image", "search_images"}
DataOps == CoreDataOps \cup {"get_all_images", "get_stats"}
KeysAbsent ==
  /\ crypto.master_key = NoMasterKey
  /\ crypto.session_key = 0
  /\ crypto.tag_keychain = 0

\* C1: for a vault initialized with password P, whenever the vault is locked
\* and not locked out (after lock_vault on the same Core, or on a fresh Core
\* over the same directory), unlock_vault(P) returns success.
C1_UnlockAfterLock ==
  (ret.op = "unlock_vault" /\ ret.via = "core" /\ ret.correct
     /\ ~ret.unlocked /\ ~ret.locked_out) => ret.ok

\* C2: after lock_vault returned success, and until the next successful
\* initialize_vault or unlock_vault, the master key, the file key and the tag
\* key are all absent, is_initialized() is false, and every Core data-plane
\* operation called in that period is rejected as not unlocked.
C2_LockedHoldsNoKeys ==
  locked_since =>
    /\ KeysAbsent
    /\ ~is_initialized(crypto)
    /\ ~core.is_initialized
    /\ (ret.op \in CoreDataOps /\ ret.via = "core" /\ ~ret.unlocked)
         => (~ret.ok /\ ret.err = "NotUnlocked")

\* C3: a Core data-plane call made on an unlocked Core after more than
\* timeout_minutes without activity is rejected as not unlocked, and the keys
\* are zeroized.
C3_IdleTimeoutLocks ==
  (ret.op \in CoreDataOps /\ ret.via = "core" /\ ret.unlocked /\ ret.expired)
    => (~ret.ok /\ ret.err = "NotUnlocked" /\ KeysAbsent)

\* C4: with max_failed_attempts = 3 on one Core, after three consecutive
\* unlock_vault calls with a bad password a lockout is in force, and every
\* further unlock_vault before lockout_until fails, the correct password
\* included.
C4_LockoutRefusesUnlock ==
  /\ (consec_bad >= max_failed_attempts /\ vault.exists)
       => session.lockout_until # None
  /\ (ret.op = "unlock_vault" /\ ret.via = "core" /\ ret.bad3 /\ ret.locked_out)
       => ~ret.ok

\* an unlock_vault with the correct password refused during the lockout
C4_CorrectPasswordLockedOut ==
  /\ ret.op = "unlock_vault" /\ ret.via = "core"
  /\ ret.bad3 /\ ret.locked_out /\ ret.correct /\ ~ret.ok

\* C5: when add_image has succeeded for some bytes and that image has not
\* been deleted, a later add_image of the same bytes fails as a duplicate and
\* leaves exactly one row with that hash and no second blob (the call ends
\* before an id is drawn).
C5_LaterDuplicateRejected ==
  (ret.op = "add_image" /\ ret.via = "core" /\ ret.unlocked /\ ret.dup
     /\ ret.err # "Invalid image file")
    => /\ ~ret.ok
       /\ ret.err = "Duplicate"
       /\ ret.id = 0
       /\ Cardinality(RowsByHash(images, ret.hash)) = 1

\* C6: two concurrent add_image calls on the same bytes leave exactly one row
\* for the hash, and exactly one of them returns success: no two images
\* returned by add_image and not deleted carry the same hash.
C6_ConcurrentAddOneWinner ==
  /\ \A a, b \in added : a.file_hash = b.file_hash => a = b
  /\ \A h \in Hashes : Cardinality(RowsByHash(images, h)) <= 1

\* C7: under any sequence of store_image, update_image and delete_image no
\* two rows of the images table share a file_hash, and a store_image whose
\* file_hash is already present fails and changes no row.
C7_FileHashUnique ==
  /\ \A r1, r2 \in images : r1.file_hash = r2.file_hash => r1 = r2
  /\ (ret.op = "store_image" /\ ret.dup) => (~ret.ok /\ ~ret.changed)

\* a store_image under a fresh id whose file_hash is already in the table
C7_DuplicateHashStored ==
  /\ ret.op = "store_image" /\ ret.dup /\ ~ret.existed /\ ~ret.ok
  /\ RowsByHash(images, ret.hash) # {}

\* C8: whenever Core.delete_image(id) returns success, no blob and no
\* thumbnail of id remain and the row is gone, so that a following
\* get_image(id) finds nothing.
C8_DeleteRemovesAll ==
  (ret.op = "delete_image" /\ ret.via = "core" /\ ret.ok)
    => /\ blobs[ret.id] = 0
       /\ ret.id \notin thumbs
       /\ RowsById(images, ret.id) = {}
       /\ \A d \in BOOLEAN :
            ~core_get_image(core, crypto, images, blobs, ret.id, d)

\* a successful Core.delete_image of an image that was stored
C8_ImageDeleted ==
  /\ ret.op = "delete_image" /\ ret.via = "core" /\ ret.ok /\ ret.existed
  /\ ret.id \in 1..next_id

\* C9: the gateway's delete_image for an existing image id in an unlocked
\* vault returns success, having removed the files and the row.
C9_GatewayDeleteSucceeds ==
  (ret.op = "delete_image" /\ ret.via = "gw" /\ ret.unlocked /\ ret.existed
     /\ gateway.storage)
    => /\ ret.ok
       /\ blobs[ret.id] = 0 /\ ret.id \notin thumbs
       /\ RowsById(images, ret.id) = {}

\* C10: no data-plane operation of a gateway or of a Core returns success
\* unless the vault is unlocked at that moment.
C10_SuccessOnlyWhenUnlocked ==
  (ret.op \in DataOps /\ ret.ok) => ret.unlocked

\* C11: in every reachable state of a Core, if the CryptoController holds
\* any of the master key, the file key or the tag key, then the vault is
\* unlocked; also after initialize_vault or unlock_vault returned failure.
C11_KeysOnlyWhenUnlocked ==
  ~KeysAbsent => core.is_initialized

\* C12: if the row insert performed by add_image fails, the blob and the
\* thumbnail written by that call are deleted and add_image returns an error
\* instead of an ImageRecord.
C12_FailedInsertCompensated ==
  (ret.op = "add_image" /\ ret.insert = "failed")
    => /\ ~ret.ok
       /\ blobs[ret.id] = 0
       /\ ret.id \notin thumbs

\* the stored bytes are what the named encryption produced under the keys
\* now loaded, byte for byte
SealedBy(kind, key) ==
  /\ cryptio.enc = kind /\ cryptio.keygen # 0 /\ cryptio.keygen = key
  /\ cryptio.flipped = {}

\* C13: if any byte at offset >= 12 of a stored blob is changed after a
\* successful add, get_image(id, decrypt=true) returns a failure and none of
\* the plaintext; the file form of decryption leaves no output file.
C13_TamperedBlobRejected ==
  (cryptio.enc = "file" /\ cryptio.keygen # 0
     /\ \E o \in cryptio.flipped : o >= nonce_size)
    => /\ cryptio.op = "get_image" => (~cryptio.ok /\ cryptio.out = <<>>)
       /\ cryptio.op = "decrypt_file"
            => (~cryptio.ok /\ cryptio.out = <<>> /\ ~cryptio.outfile)

\* get_image(decrypt=true) on a blob changed at an offset >= 12, with the
\* key that wrote it loaded and the vault unlocked
C13_TamperedBlobRead ==
  /\ cryptio.op = "get_image" /\ cryptio.enc = "file"
  /\ cryptio.input # <<>>
  /\ core.is_initialized /\ cryptio.keygen = crypto.session_key
  /\ \E o \in cryptio.flipped : o >= nonce_size
  /\ ~cryptio.ok

\* C14: while the keys are loaded, decryption inverts encryption for every
\* input x: decrypt_data(encrypt_data(x)) = x,
\* decrypt_with_tag_keychain(encrypt_with_tag_keychain(x)) = x, and
\* decrypt_file on the output of encrypt_file reproduces the input.
C14_DecryptInvertsEncrypt ==
  /\ (cryptio.op = "decrypt_data" /\ SealedBy("data", crypto.session_key))
       => (cryptio.ok /\ cryptio.out = cryptio.input)
  /\ (cryptio.op = "decrypt_with_tag_keychain" /\ SealedBy("tag", crypto.tag_keychain))
       => (cryptio.ok /\ cryptio.out = cryptio.input)
  /\ (cryptio.op = "decrypt_file" /\ SealedBy("file", crypto.session_key))
       => (cryptio.ok /\ cryptio.outfile /\ cryptio.out = cryptio.input)

\* a decrypt_data of the encrypt_data of a non-empty input
C14_RoundTripDone ==
  /\ cryptio.op = "decrypt_data" /\ SealedBy("data", crypto.session_key)
  /\ Len(cryptio.input) = MaxLen
  /\ cryptio.ok

\* C15: every gateway invocation, for every command and every stdin payload
\* (an unknown command, a missing required key and malformed JSON included),
\* writes exactly one JSON document to stdout, and exits with code 0 if and
\* only if that document has success = true.
C15_OneDocumentAndExitCode ==
  proc.command # "none"
    => /\ proc.stdout = <<"json">>
       /\ (proc.exit = 0) <=> proc.success

\* C16: no error output of the gateway or the Core (error message, details
\* object or diagnostic text) contains the master password or key material.
C16_NoSecretInErrorOutput ==
  proc.leaked = {}

\* C17: once initialize has succeeded for a vault directory (vault.key
\* records a salt), the salt recorded in vault.key never changes under any
\* later initialize, unlock, lock, add_image or delete_image.
C17_SaltFixed ==
  [][vault.salt # 0 => vault'.salt = vault.salt]_vars

AllowListed(k) == k \in safe_fields \/ k \in CountOrSizeKeys

\* C18: for every event passed to log_event, the data of the stored entry
\* holds the allow-listed keys verbatim, holds filename, path, image_id and
\* tag only as <key>_hash (first 16 hex chars of SHA-256 of the value), holds
\* no other key of the caller, and the raw value of a filename, path, image
\* id or tag appears nowhere in the stored entry.
C18_EntryDataSanitized ==
  \A i \in 1..Len(audit.file) :
    LET e == audit.file[i]
        d == e.given
    IN /\ \A k \in DOMAIN d : AllowListed(k)
            => (k \in DOMAIN e.data /\ e.data[k] = d[k])
       /\ \A k \in DOMAIN d : (k \in hash_fields /\ ~AllowListed(k))
            => /\ k \notin DOMAIN e.data
               /\ HashKey(k) \in DOMAIN e.data
               /\ e.data[HashKey(k)] = Sha256_16(d[k])
       /\ \A k \in DOMAIN e.data :
            \E g \in DOMAIN d :
              \/ (AllowListed(g) /\ k = g)
              \/ (g \in hash_fields /\ k = HashKey(g))
       /\ \A g \in DOMAIN d : g \in hash_fields
            => \A k \in DOMAIN e.data : ~Mentions(e.data[k], d[g])

\* C19: every entry the AuditLogger writes to a log file, the entries of
\* log_event and the initialization entry of a new or rotated file alike,
\* carries an integrity_hash equal to the first 32 hex chars of SHA-256 over
\* the canonical JSON of the entry without that field.
C19_EveryEntryHashed ==
  \A i \in 1..Len(audit.file) :
    audit.file[i].integrity_hash = _calculate_entry_hash(audit.file[i])

\* C20: tag normalization is idempotent and canonical: normalizing a
\* normalized list gives the same list, and a normalized list is sorted
\* ascending and holds no duplicate and no empty string.
C20_NormalizeIdempotentCanonical ==
  /\ \A i \in DOMAIN tagio.tags : tagio.tags[i] # <<>>
  /\ \A i, j \in DOMAIN tagio.tags :
       i < j => StrLess(tagio.tags[i], tagio.tags[j])
  /\ tagio.op = "again" => tagio.tags = [i \in DOMAIN tagio.given |-> tagio.given[i].s]

\* the same, for lists that hold only str
C20_StrListsOnly == tagio.all_str => C20_NormalizeIdempotentCanonical

Ranked == [i \in DOMAIN searchio.results |-> searchio.results[i].record]

\* C21: given exactly the records R1 and R2, the query 'beach' returns [R1],
\* and the query 'sun' returns both records with R2 ranked above R1.
C21_SearchRanking ==
  (searchio.op = "search" /\ Elems(searchio.records) = {R1, R2})
    => /\ searchio.query = <<w_beach>> => Ranked = <<R1>>
       /\ searchio.query = <<w_sun>> => Ranked = <<R2, R1>>

\* C22: the vault_id, version and created_at fields of vault.config never
\* change after the vault is first created, under any sequence of
\* create_vault, update_vault_config and initialize_vault calls.
C22_ConfigIdentityFixed ==
  [][vconfig.exists => /\ vconfig'.vault_id = vconfig.vault_id
                       /\ vconfig'.version = vconfig.version
                       /\ vconfig'.created_at = vconfig.created_at]_vars

\* C23: after create_session succeeds the session is active and
\* validate_session returns true; after destroy_session the session is
\* inactive and validate_session returns false on every call until the next
\* successful create_session.  (validate_session is called before the idle
\* timeout of the new session has passed.)
C23_SessionActiveBetweenCreateAndDestroy ==
  /\ (ret.op = "create_session" /\ ret.ok)
       => /\ session.session_validated /\ session.session_key
          /\ clock = session.last_activity_time => validate_session(session, clock).ok
  /\ locked_since => ~session.session_validated
  /\ (locked_since /\ ret.op = "validate_session") => ~ret.ok

\* a validate_session call made after a session was created and destroyed
C23_ValidatedAfterDestroy ==
  locked_since /\ ret.op = "validate_session" /\ session.lockout_until = None

\* C24: when a lockout window has elapsed the session is back in Locked with
\* failed_attempts = 0: a single bad unlock after the window does not
\* re-enter LockedOut.
C24_OneBadAttemptAfterWindow ==
  (ret.op = "record_failed_attempt" /\ ret.elapsed) => ~_is_locked_out(session, clock)

LastEntry == audit.file[Len(audit.file)]
Appended(event_type) ==
  audit' # audit /\ audit'.file[Len(audit'.file)].event_type = event_type

\* C25: for initialize_vault, unlock_vault, lock_vault, add_image and
\* delete_image, the audit entry recording the operation is appended only
\* after the operation's state change has taken effect.
C25_AuditAfterStateChange ==
  [][/\ Appended("vault_init_success") => core.is_initialized
     /\ Appended("vault_unlock_success") => core.is_initialized
     /\ Appended("vault_lock")
          => (~core.is_initialized /\ KeysAbsent /\ ~session.session_validated)
     /\ Appended("image_added") => RowsById(images, ret.id) # {}
     /\ Appended("image_deleted") => RowsById(images, ret.id) = {}]_vars

\* the event type of a failed authentication
BadPasswordEvent == "failed_authentication"

\* C26: every unlock that fails because of a bad password appends an audit
\* entry that records a bad-password failure, distinct from the entry of a
\* mere unlock attempt.
C26_BadPasswordAudited ==
  (ret.op = "unlock_vault" /\ ~ret.ok /\ ~ret.correct /\ vault.salt # 0)
    => LastEntry.event_type = BadPasswordEvent

Corrupted(ld, f) == {l \in Elems(LogFileAt(ld, f).lines) : l.state # "intact"}

\* C27: clear_logs never removes a corrupted entry, whatever its age: neither
\* a line that is not valid JSON nor an entry whose integrity hash does not
\* match is dropped from the current or a rotated log file.
C27_TrimKeepsCorrupted ==
  [][logdir'.last_op = "clear_logs"
       => \A f \in LogFiles :
            Corrupted(logdir, f) \subseteq Elems(LogFileAt(logdir', f).lines)]_vars

Entries(ld, f) == {l \in Elems(LogFileAt(ld, f).lines) : l.kind = "entry"}

RotationInv(ld) ==
  /\ ~ld.rotated[max_log_files + 1].exists
  /\ \A f, g \in LogFiles :
       f < g => \A l \in Entries(ld, f), m \in Entries(ld, g) : l.n > m.n
  /\ ld.current.exists => ld.current.lines[1].kind = "header"

\* C28: after any sequence of log_event calls, at most max_log_files rotated
\* files exist, rotated file .1 is the most recently rotated with .k+1 older
\* than .k, the current file starts with an initialization entry, and
\* rotation has discarded only entries that were in the oldest rotated file.
C28_RotationKeepsNewest ==
  [][/\ RotationInv(logdir')
     /\ \A l \in AllLines(logdir) :
          (l.kind = "entry" /\ l \notin AllLines(logdir'))
            => l \in Entries(logdir, max_log_files)]_vars

\* the first entry has been discarded by a rotation and five rotated files exist
C28_OldestDiscarded ==
  /\ \A l \in AllLines(logdir) : l.n # 1
  /\ \A f \in 1..max_log_files : logdir.rotated[f].exists
  /\ logdir.appended = MaxAppends

Operating == {t \in Threads : logthreads.at[t] # "idle"}

\* C29: appends, rotations, trims and integrity-verification reads on one
\* audit log file are mutually exclusive: under any interleaving of
\* concurrent log_event, clear_logs and verify_log_integrity calls no two of
\* them operate on the file at the same time.
C29_LogFileMutex == Cardinality(Operating) <= 1

\* the same for the calls made through one AuditLogger object
C29_OneObjectMutex ==
  \A a \in Loggers :
    Cardinality({t \in Operating : logthreads.obj[t] = a}) <= 1

\* C30: session transitions are atomic with respect to each other:
\* concurrent calls behave as if executed one at a time, so every bad attempt
\* is counted in failed_attempts and validate_session never returns true for
\* a session that another thread has already destroyed.
C30_SessionTransitionsAtomic ==
  /\ (\A t \in Threads : SmIdle(t)) => session.failed_attempts = smthreads.calls
  /\ ~smthreads.stale_true

\* C31: update_image(id, updates) for an existing id with a whitelisted field
\* succeeds and changes only whitelisted fields of that row: id and file_hash
\* of the row, and every other row, are unchanged.
C31_UpdateWhitelistedOnly ==
  [][(ret'.op = "update_image" /\ RowsById(images, ret'.id) # {})
       => /\ ret'.ok
          /\ \A r \in images : r.id # ret'.id => r \in images'
          /\ \A r \in images' : r.id = ret'.id =>
               \E q \in images : q.id = r.id /\ q.file_hash = r.file_hash
          /\ Cardinality(images') = Cardinality(images)]_vars

\* C32: validate_vault_integrity lists in its issues every blob file under
\* data/ that no images row references, in addition to every missing
\* mandatory directory or file.
C32_IntegrityListsOrphans ==
  vdir.report.op = "validate_vault_integrity" =>
    /\ \A i \in vdir.report.orphans :
         [kind |-> "Orphaned file", name |-> i] \in vdir.report.issues
    /\ \A d \in DirNames \ vdir.dirs :
         [kind |-> "Missing directory", name |-> d] \in vdir.report.issues
    /\ ~vdir.config =>
         [kind |-> "Missing or invalid vault configuration", name |-> ""] \in vdir.report.issues
    /\ ~vdir.key =>
         [kind |-> "Missing vault key file", name |-> ""] \in vdir.report.issues

\* the part of C32 about missing directories and files alone
C32_MissingEntriesListed ==
  vdir.report.op = "validate_vault_integrity" =>
    /\ \A d \in DirNames \ vdir.dirs :
         [kind |-> "Missing directory", name |-> d] \in vdir.report.issues
    /\ ~vdir.config =>
         [kind |-> "Missing or invalid vault configuration", name |-> ""] \in vdir.report.issues
    /\ ~vdir.key =>
         [kind |-> "Missing vault key file", name |-> ""] \in vdir.report.issues
    /\ vdir.report.valid = (vdir = create_vault_entries(vdir))

\* C33: failed unlocks through one IPCGateway accumulate toward lockout: after
\* max_failed_attempts unlock_vault calls in a row with a bad password on
\* that gateway, the next unlock_vault on it is rejected, the correct password
\* included (no time passes between the calls).
C33_GatewayLockoutAccumulates ==
  /\ (ret.op = "unlock_vault" /\ ret.via = "gw" /\ ret.err = ""
        /\ ~ret.correct /\ gw_bad >= max_failed_attempts)
       => _is_locked_out(session, clock)
  /\ (ret.op = "unlock_vault" /\ ret.via = "gw" /\ ret.bad3 /\ ret.err = "")
       => ~ret.ok

\* C34: stored images survive a lock: for every image added while the vault
\* was unlocked and not deleted since, after lock_vault followed by a
\* successful unlock_vault with the same password, get_image(id, decrypt=true)
\* returns the original plaintext bytes.
C34_ImagesSurviveLock ==
  (ret.op = "unlock_vault" /\ ret.via = "core" /\ ret.ok /\ relock.st = "reopened")
    => \A a \in added : core_get_image(core, crypto, images, blobs, a.id, TRUE)

\* C35: in every reachable SessionManager state, under any sequence of
\* create_session, validate_session, renew_session, record_failed_attempt,
\* extend_session and destroy_session, a validated session and an active
\* lockout never hold together; and while locked out create_session never
\* succeeds.
C35_NoSessionDuringLockout ==
  /\ ~(session.session_validated /\ _is_locked_out(session, clock))
  /\ (ret.op = "create_session" /\ ret.locked_out) => ~ret.ok

\* a create_session refused during a lockout
C35_CreateRefusedInLockout ==
  /\ ret.op = "create_session" /\ ret.locked_out /\ ~ret.ok
  /\ _is_locked_out(session, clock) /\ ~session.session_validated

\* C36: once a session's idle timeout has elapsed, no operation other than a
\* new successful create_session makes the session valid again: neither
\* renew_session nor extend_session called after the timeout leaves
\* validate_session returning true.
C36_TimedOutStaysInvalid ==
  (ret.op \in {"renew_session", "extend_session"} /\ ret.expired)
    => ~validate_session(session, clock).ok

\* C37: if initialize_vault is called on a directory that already holds an
\* initialized vault and returns failure, then vault.key, and every stored
\* blob and database row of the existing vault, are unchanged from before the
\* call.
C37_FailedInitializeLeavesVault ==
  [][(ret'.op = "initialize_vault" /\ ret'.via = "core" /\ ~ret'.ok /\ vault.exists)
       => /\ vault' = vault
          /\ images' = images
          /\ blobs' = blobs]_vars

\* C38: activity never brings the session's expiry earlier: after
\* extend_session(m) succeeds the session stays valid for at least
\* timeout + m minutes without further activity, and a validate_session call
\* does not make the session expire sooner than it would have without it.
C38_ActivityNeverShortens ==
  [][/\ \A m \in ExtendMinutes :
          (SmExtendSession(m) /\ ret'.ok)
            => \A d \in 0..(timeout_minutes + m) :
                 ~_is_session_expired(session', clock + d)
     /\ (ret'.op = "validate_session" /\ ret'.ok /\ session.last_activity_time # None)
          => session'.last_activity_time >= session.last_activity_time]_vars

\* the part of C38 about extend_session alone
C38_ExtendAddsMinutes ==
  [][\A m \in ExtendMinutes :
       (SmExtendSession(m) /\ ret'.ok)
         => \A d \in 0..(timeout_minutes + m) :
              ~_is_session_expired(session', clock + d)]_vars

TypeOK ==
  /\ clock \in 0..MaxTime
  /\ gens \in 0..MaxGen
  /\ next_id \in 0..MaxImages
  /\ \A r \in images : r.id \in Ids /\ r.file_hash \in Hashes

====
